---- MODULE Spec2Model ----
(***************************************************************************)
(* A model of aisdk-go's data-stream core: the DataStreamAccumulator, the  *)
(* WithToolCalling / WithAccumulator transducers and the three provider    *)
(* adapters (OpenAIToDataStream, AnthropicToDataStream,                    *)
(* GoogleToDataStream).                                                    *)
(*                                                                         *)
(* Go strings are modelled as sequences of one-character tokens, so that   *)
(* concatenation and JSON decoding are computed, not assumed.  A Go        *)
(* pointer that may be nil is a sequence of length 0 or 1.                 *)
(***************************************************************************)
EXTENDS Integers, Sequences, FiniteSets, TLC

\* ------------------------------------------------------------------ bounds
MaxPush == 4        \* Push calls made on one accumulator (SpecAcc)
MaxUp == 3          \* parts an arbitrary upstream stream yields (SpecMW, SpecPipe)
MaxEvents == 3      \* events an adapter pulls from its vendor stream (SpecAdapters)
MaxSize == 4        \* messages plus parts, blocks or invocations of a converter's input (SpecConv, SpecTrip)

\* ------------------------------------------------------------ input values
ToolCallIDs == {"t1", "t2"}
ToolNames == {"f"}
TextDeltas == {<<"a">>, <<"b">>}
ReasoningDeltas == {<<"a">>}
ArgsDeltas == {<<"{">>, <<"}">>, <<"{", "}">>}
MessageIDs == {<<>>, <<"m1">>, <<"m2">>}
Results == {"r1"}
HandlerResults == {"h1", "h2"}
UpArgsDeltas == {<<"{">>, <<"}">>, <<"{", "}">>}
ArgObjects == {"{}"}

\* ----------------------------------------------------------- Go primitives
Nil == <<>>
Ptr(v) == <<v>>
Deref(p) == p[1]

\* encoding/json.Unmarshal of a text into a map[string]any: the text must be
\* one complete JSON value that is an object, or null (which leaves the map
\* nil and reports no error).
Unmarshal(text) ==
    IF text = <<"{", "}">> THEN [ok |-> TRUE, obj |-> "{}"]
    ELSE IF text = <<"{", "k", "}">> THEN [ok |-> TRUE, obj |-> "{k}"]
    ELSE IF text = <<"n">> THEN [ok |-> TRUE, obj |-> "nil"]
    ELSE [ok |-> FALSE, obj |-> "nil"]

\* ToolInvocation.Args is an `any`: a string while deltas arrive, a decoded
\* map afterwards.
StrArgs(s) == [isStr |-> TRUE, str |-> s, obj |-> "nil"]
ObjArgs(o) == [isStr |-> FALSE, str |-> <<>>, obj |-> o]

\* ------------------------------------------------------------- part model
FinishReasonStop == "stop"
FinishReasonLength == "length"
FinishReasonContentFilter == "content-filter"
FinishReasonToolCalls == "tool-calls"
FinishReasonError == "error"
FinishReasonOther == "other"
FinishReasonUnknown == "unknown"
FinishReasons ==
    {FinishReasonStop, FinishReasonLength, FinishReasonContentFilter,
     FinishReasonToolCalls, FinishReasonError, FinishReasonOther,
     FinishReasonUnknown}

ToolInvocationStateCall == "call"
ToolInvocationStatePartialCall == "partial-call"
ToolInvocationStateResult == "result"

PartTypeText == "text"
PartTypeReasoning == "reasoning"
PartTypeToolInvocation == "tool-invocation"
PartTypeSource == "source"
PartTypeFile == "file"
PartTypeStepStart == "step-start"

NoUsage == [promptTokens |-> Nil, completionTokens |-> Nil]

\* The DataStreamPart variants, tagged by their TypeID.
TextStreamPart(c) == [tag |-> "0", content |-> c]
ReasoningStreamPart(c) == [tag |-> "g", content |-> c]
RedactedReasoningStreamPart == [tag |-> "i"]
ReasoningSignatureStreamPart == [tag |-> "j"]
SourceStreamPart == [tag |-> "h"]
FileStreamPart == [tag |-> "k"]
DataStreamDataPart == [tag |-> "2"]
MessageAnnotationStreamPart == [tag |-> "8"]
ErrorStreamPart == [tag |-> "3"]
ToolCallStartStreamPart(id, name) == [tag |-> "b", toolCallId |-> id, toolName |-> name]
ToolCallDeltaStreamPart(id, d) == [tag |-> "c", toolCallId |-> id, argsTextDelta |-> d]
ToolCallStreamPart(id, name, args) ==
    [tag |-> "9", toolCallId |-> id, toolName |-> name, args |-> args]
ToolResultStreamPart(id, res) == [tag |-> "a", toolCallId |-> id, result |-> res]
StartStepStreamPart(mid) == [tag |-> "f", messageId |-> mid]
FinishStepStreamPart(reason, usage, cont) ==
    [tag |-> "e", finishReason |-> reason, usage |-> usage, isContinued |-> cont]
FinishMessageStreamPart(reason, usage) ==
    [tag |-> "d", finishReason |-> reason, usage |-> usage]

\* Part of a Message.  `inv` is the *ToolInvocation pointer.
Part(type) ==
    [type |-> type, text |-> <<>>, reasoning |-> <<>>, inv |-> Nil,
     isComplete |-> FALSE]
ToolInvocation(state, id, name, args) ==
    [state |-> state, toolCallId |-> id, toolName |-> name, args |-> args,
     result |-> Nil]

\* -------------------------------------------------- DataStreamAccumulator
\* The accumulator as a value: its five fields, and `nCreated`, a history
\* counter of the messages ensureCurrentMessage has created (each Message
\* carries the value it was created with as `serial`).
\* wipToolCalls maps a toolCallId to the index, in currentMessage.Parts, of
\* the Part its pointer refers to.  The pointer may outlive a reallocation of
\* Parts, but everything Push reads or writes through it that can be seen
\* again lives behind the Part's ToolInvocation pointer, which both copies
\* share; isComplete, the one field that is copied, is only ever read through
\* wipToolCalls while it is still false in every copy.
DataStreamAccumulator ==
    [messages |-> <<>>, currentMessage |-> Nil, wipToolCalls |-> <<>>,
     finishReason |-> <<>>, usage |-> NoUsage, nCreated |-> 0]

Message(serial) ==
    [id |-> <<>>, role |-> "assistant", content |-> <<>>, parts |-> <<>>,
     annotations |-> 0, serial |-> serial]

Without(f, k) == [x \in (DOMAIN f) \ {k} |-> f[x]]
With(f, k, v) == [x \in (DOMAIN f) \cup {k} |-> IF x = k THEN v ELSE f[x]]
Image(f) == {f[x] : x \in DOMAIN f}

ensureCurrentMessage(a) ==
    IF a.currentMessage = Nil
    THEN [a EXCEPT !.currentMessage = Ptr(Message(a.nCreated + 1)),
                   !.wipToolCalls = <<>>,
                   !.nCreated = @ + 1]
    ELSE a

IsInvocationOf(part, toolCallID) ==
    /\ part.type = PartTypeToolInvocation
    /\ part.inv # Nil
    /\ Deref(part.inv).toolCallId = toolCallID

\* The index of the first tool-invocation Part with this id, 0 for nil.
findPart(a, toolCallID) ==
    IF a.currentMessage = Nil THEN 0
    ELSE LET parts == Deref(a.currentMessage).parts
             hits == {i \in DOMAIN parts : IsInvocationOf(parts[i], toolCallID)}
         IN IF hits = {} THEN 0 ELSE CHOOSE i \in hits : \A j \in hits : i <= j

Ok(a) == [acc |-> a, err |-> FALSE]
Fail(a) == [acc |-> a, err |-> TRUE]
SetParts(a, parts) == [a EXCEPT !.currentMessage[1].parts = parts]
CurParts(a) == Deref(a.currentMessage).parts

\* Mutant of PushText: a delta that merges into the last text Part replaces
\* its text instead of extending it.
PushText_Overwrite(a, p) ==
    LET parts == CurParts(a)
        n == Len(parts)
        merged == IF n > 0 /\ parts[n].type = PartTypeText
                  THEN [parts EXCEPT ![n].text = p.content]
                  ELSE Append(parts, [Part(PartTypeText) EXCEPT !.text = p.content])
    IN Ok([a EXCEPT !.currentMessage[1].content = @ \o p.content,
                    !.currentMessage[1].parts = merged])

PushText(a, p) ==
    LET parts == CurParts(a)
        n == Len(parts)
        merged == IF n > 0 /\ parts[n].type = PartTypeText
                  THEN [parts EXCEPT ![n].text = @ \o p.content]
                  ELSE Append(parts, [Part(PartTypeText) EXCEPT !.text = p.content])
    IN Ok([a EXCEPT !.currentMessage[1].content = @ \o p.content,
                    !.currentMessage[1].parts = merged])

PushReasoning(a, p) ==
    LET parts == CurParts(a)
        hits == {i \in DOMAIN parts : parts[i].type = PartTypeReasoning}
        with == IF hits = {} THEN Append(parts, Part(PartTypeReasoning)) ELSE parts
        at == IF hits = {} THEN Len(with) ELSE CHOOSE i \in hits : \A j \in hits : i <= j
    IN Ok(SetParts(a, [with EXCEPT ![at].reasoning = @ \o p.content]))

PushFile(a, p) == Ok(SetParts(a, Append(CurParts(a), Part(PartTypeFile))))

PushSource(a, p) == Ok(SetParts(a, Append(CurParts(a), Part(PartTypeSource))))

\* Mutant of PushStartStep: every step-start sets the id of the message.
PushStartStep_Overwrite(a, p) ==
    Ok([a EXCEPT !.currentMessage[1].id = p.messageId,
                 !.currentMessage[1].parts = Append(@, Part(PartTypeStepStart))])

PushStartStep(a, p) ==
    LET cm == Deref(a.currentMessage)
        id == IF cm.id = <<>> THEN p.messageId ELSE cm.id
    IN Ok([a EXCEPT !.currentMessage[1].id = id,
                    !.currentMessage[1].parts = Append(@, Part(PartTypeStepStart))])

PushToolCallStart(a, p) ==
    LET newPart == [Part(PartTypeToolInvocation) EXCEPT
                      !.inv = Ptr(ToolInvocation(ToolInvocationStatePartialCall,
                                                 p.toolCallId, p.toolName, StrArgs(<<>>)))]
        parts == Append(CurParts(a), newPart)
    IN Ok([SetParts(a, parts) EXCEPT
             !.wipToolCalls = With(@, p.toolCallId, Len(parts))])

PushToolCallDelta(a, p) ==
    IF p.toolCallId \in DOMAIN a.wipToolCalls
       /\ CurParts(a)[a.wipToolCalls[p.toolCallId]].inv # Nil
    THEN LET i == a.wipToolCalls[p.toolCallId]
             args == Deref(CurParts(a)[i].inv).args
         IN IF args.isStr
            THEN Ok([a EXCEPT !.currentMessage[1].parts[i].inv[1].args =
                                StrArgs(args.str \o p.argsTextDelta)])
            ELSE Fail(a)
    ELSE Ok(a)

\* Mutant of PushToolCall: the promoted Part is moved to the end of Parts.
PushToolCall_MoveToEnd(a, p) ==
    LET i == findPart(a, p.toolCallId)
        parts == CurParts(a)
        call == [Part(PartTypeToolInvocation) EXCEPT
                   !.inv = Ptr(ToolInvocation(ToolInvocationStateCall, p.toolCallId,
                                              p.toolName, ObjArgs(p.args))),
                   !.isComplete = TRUE]
        rest == IF i # 0
                THEN SubSeq(parts, 1, i - 1) \o SubSeq(parts, i + 1, Len(parts))
                ELSE parts
    IN Ok([SetParts(a, Append(rest, call)) EXCEPT !.wipToolCalls = <<>>])

PushToolCall(a, p) ==
    LET i == findPart(a, p.toolCallId)
        b == IF i # 0
             THEN [a EXCEPT !.currentMessage[1].parts[i].inv[1].toolName = p.toolName,
                            !.currentMessage[1].parts[i].inv[1].args = ObjArgs(p.args),
                            !.currentMessage[1].parts[i].inv[1].state = ToolInvocationStateCall,
                            !.currentMessage[1].parts[i].isComplete = TRUE]
             ELSE SetParts(a, Append(CurParts(a),
                    [Part(PartTypeToolInvocation) EXCEPT
                       !.inv = Ptr(ToolInvocation(ToolInvocationStateCall, p.toolCallId,
                                                  p.toolName, ObjArgs(p.args))),
                       !.isComplete = TRUE]))
    IN Ok([b EXCEPT !.wipToolCalls = Without(@, p.toolCallId)])

\* Mutant of PushToolResult: a result for an unknown id opens an invocation.
PushToolResult_AppendUnknown(a, p) ==
    LET i == findPart(a, p.toolCallId)
    IN IF i # 0
       THEN Ok([a EXCEPT !.currentMessage[1].parts[i].inv[1].state = ToolInvocationStateResult,
                         !.currentMessage[1].parts[i].inv[1].result = Ptr(p.result)])
       ELSE Ok(SetParts(a, Append(CurParts(a),
                  [Part(PartTypeToolInvocation) EXCEPT
                     !.inv = Ptr([ToolInvocation(ToolInvocationStateResult, p.toolCallId,
                                                 "", StrArgs(<<>>))
                                    EXCEPT !.result = Ptr(p.result)])])))

\* PushToolResult that marks the invocation as a result and drops the value.
PushToolResult_DropResult(a, p) ==
    LET i == findPart(a, p.toolCallId)
    IN IF i # 0
       THEN Ok([a EXCEPT !.currentMessage[1].parts[i].inv[1].state = ToolInvocationStateResult])
       ELSE Fail(a)

PushToolResult(a, p) ==
    LET i == findPart(a, p.toolCallId)
    IN IF i # 0
       THEN Ok([a EXCEPT !.currentMessage[1].parts[i].inv[1].state = ToolInvocationStateResult,
                         !.currentMessage[1].parts[i].inv[1].result = Ptr(p.result)])
       ELSE Fail(a)

PushAnnotations(a, p) == Ok([a EXCEPT !.currentMessage[1].annotations = @ + 1])

\* Mutant of CompleteWip: the args are left undecoded.
CompleteWip_NoDecode(part) ==
    IF ~part.isComplete /\ part.inv # Nil THEN [part EXCEPT !.isComplete = TRUE] ELSE part

\* The clean-up loop of finish-step and finish-message on one Part that
\* wipToolCalls points to.
CompleteWip(part) ==
    IF ~part.isComplete /\ part.inv # Nil
    THEN LET args == Deref(part.inv).args
             parsed == Unmarshal(args.str)
             decoded == IF args.isStr /\ args.str # <<>> /\ parsed.ok
                        THEN [part EXCEPT !.inv[1].args = ObjArgs(parsed.obj),
                                          !.inv[1].state = ToolInvocationStateCall]
                        ELSE part
         IN [decoded EXCEPT !.isComplete = TRUE]
    ELSE part

CleanUpWip(a) ==
    LET parts == CurParts(a)
    IN SetParts(a, [i \in DOMAIN parts |->
                      IF i \in Image(a.wipToolCalls) THEN CompleteWip(parts[i])
                      ELSE parts[i]])

\* Mutant of PushFinishStep: isContinued is not consulted.
PushFinishStep_AlwaysFlush(a, p) ==
    LET b == [CleanUpWip(a) EXCEPT !.wipToolCalls = <<>>]
        c == [b EXCEPT !.messages = Append(@, Deref(b.currentMessage)),
                       !.currentMessage = Nil,
                       !.wipToolCalls = <<>>]
    IN Ok([c EXCEPT !.finishReason = p.finishReason])

PushFinishStep(a, p) ==
    LET b == [CleanUpWip(a) EXCEPT !.wipToolCalls = <<>>]
        c == IF ~p.isContinued
             THEN [b EXCEPT !.messages = Append(@, Deref(b.currentMessage)),
                            !.currentMessage = Nil,
                            !.wipToolCalls = <<>>]
             ELSE b
    IN Ok([c EXCEPT !.finishReason = p.finishReason])

PushFinishMessage(a, p) ==
    LET b == IF a.currentMessage # Nil
             THEN LET c == CleanUpWip(a)
                  IN [c EXCEPT !.messages = Append(@, Deref(c.currentMessage))]
             ELSE a
    IN Ok([b EXCEPT !.finishReason = p.finishReason,
                    !.currentMessage = Nil,
                    !.wipToolCalls = <<>>,
                    !.usage = p.usage])

PushError(a, p) == Fail([a EXCEPT !.finishReason = FinishReasonError])

\* DataStreamAccumulator.Push: the new accumulator and whether Push returned
\* an error.
Push(a0, p) ==
    LET a == IF p.tag # "d" THEN ensureCurrentMessage(a0) ELSE a0
    IN CASE p.tag = "0" -> PushText(a, p)
         [] p.tag = "g" -> PushReasoning(a, p)
         [] p.tag = "k" -> PushFile(a, p)
         [] p.tag = "h" -> PushSource(a, p)
         [] p.tag = "f" -> PushStartStep(a, p)
         [] p.tag = "b" -> PushToolCallStart(a, p)
         [] p.tag = "c" -> PushToolCallDelta(a, p)
         [] p.tag = "9" -> PushToolCall(a, p)
         [] p.tag = "a" -> PushToolResult(a, p)
         [] p.tag \in {"2", "8"} -> PushAnnotations(a, p)
         [] p.tag = "e" -> PushFinishStep(a, p)
         [] p.tag = "d" -> PushFinishMessage(a, p)
         [] p.tag = "3" -> PushError(a, p)
         [] p.tag \in {"i", "j"} -> Ok(a)

Messages(a) == a.messages

\* ------------------------------------------------------------------ state
VARIABLES
    acc,              \* the DataStreamAccumulator
    nPush,            \* number of direct Push calls made so far
    lastPush,         \* history: the latest direct Push call (its part and whether it failed)
    announced,        \* history: per message serial, the ids of the pushes that opened an invocation
    useAcc,           \* whether the chain ends with WithAccumulator
    upc,              \* the upstream iterator: "run", or "done" once it has returned
    mpc,              \* WithToolCalling's position (see MWPositions)
    partialToolCalls, \* WithToolCalling: id -> [text, step, toolName]
    step,             \* WithToolCalling: the current step
    mcall,            \* WithToolCalling: the ToolCall being processed by processToolCall
    mresult,          \* WithToolCalling: the handler's result for mcall
    up,               \* history: what the upstream has yielded to WithToolCalling
    out,              \* history: what has been yielded to the consumer
    calls,            \* history: the handler invocations, each with the length of out at the call
    halted,           \* the consumer's yield has returned false
    src,              \* the upstream: "raw", or the adapter that produces the stream
    ad,               \* the adapter's local variables
    pend,             \* the yields the adapter has still to make for the event it is handling
    checked,          \* whether the upstream tests the result of its yield call in progress
    pulls,            \* history: the calls the adapter has made to its vendor stream
    evs,              \* history: the events the vendor stream has handed to the adapter
    yieldFalse,       \* history: a yield call of the upstream has returned false
    cin,              \* the message list handed to the converters
    conv              \* the latest converter call: its name and what it returned

accHist == <<nPush, lastPush, announced>>
mwVars == <<mpc, partialToolCalls, step, mcall, mresult>>
srcVars == <<src, ad, pend, checked, pulls, evs>>
chainVars == <<useAcc, upc, mwVars, up, out, calls, halted, srcVars, yieldFalse>>
convVars == <<cin, conv>>
vars == <<acc, accHist, chainVars, convVars>>

\* ------------------------------------- the accumulator under direct pushes
\* WithToolCalling is in its range loop waiting for the upstream ("idle"),
\* inside processToolCall before the tool-call yield ("toolcall"), before the
\* handler call ("handler"), before the tool-result yield ("toolresult"), or
\* has returned ("done").
MWPositions == {"idle", "toolcall", "handler", "toolresult", "done"}

InitChain(withAcc) ==
    /\ useAcc = withAcc
    /\ upc = "run"
    /\ mpc = "idle"
    /\ partialToolCalls = <<>>
    /\ step = 0
    /\ mcall = Nil
    /\ mresult = Nil
    /\ up = <<>>
    /\ out = <<>>
    /\ calls = <<>>
    /\ halted = FALSE
    /\ yieldFalse = FALSE

\* An arbitrary upstream: it has no state of its own, and returns when its
\* yield returns false.
InitRaw ==
    /\ src = "raw"
    /\ ad = Nil
    /\ pend = <<>>
    /\ checked = TRUE
    /\ pulls = 0
    /\ evs = <<>>

\* No converter is involved.
InitNoConv ==
    /\ cin = [kind |-> "none", messages |-> <<>>]
    /\ conv = Nil

InitAccHist ==
    /\ nPush = 0
    /\ lastPush = Nil
    /\ announced = <<>>

InitAcc ==
    /\ acc = DataStreamAccumulator
    /\ InitAccHist
    /\ InitChain(FALSE)
    /\ InitRaw
    /\ InitNoConv

\* Messages() followed by the in-progress message, if any: message k of this
\* list is the k-th message the accumulator created.
AllMessages(a) == a.messages \o a.currentMessage

\* The ids a push announces: a tool-call-start always opens an invocation, a
\* tool-call opens one when the message holds none for its id yet.
Announce(log, a, p) ==
    LET n == a.nCreated
        grown == IF Len(log) < n THEN Append(log, <<>>) ELSE log
    IN IF n = 0 THEN log
       ELSE IF p.tag = "b" \/ (p.tag = "9" /\ \A i \in DOMAIN grown[n] : grown[n][i] # p.toolCallId)
            THEN [grown EXCEPT ![n] = Append(@, p.toolCallId)]
            ELSE grown

DoPush(p) ==
    /\ LET r == Push(acc, p)
       IN /\ acc' = r.acc
          /\ lastPush' = Ptr([part |-> p, err |-> r.err])
          /\ announced' = Announce(announced, r.acc, p)
    /\ nPush' = nPush + 1
    /\ UNCHANGED <<chainVars, convVars>>

\* One action per case of Push's type switch.
CanPush == nPush < MaxPush

CallPushText ==
    /\ CanPush
    /\ \E c \in TextDeltas : DoPush(TextStreamPart(c))
CallPushReasoning ==
    /\ CanPush
    /\ \E c \in ReasoningDeltas : DoPush(ReasoningStreamPart(c))
CallPushFile ==
    /\ CanPush
    /\ DoPush(FileStreamPart)
CallPushSource ==
    /\ CanPush
    /\ DoPush(SourceStreamPart)
CallPushStartStep ==
    /\ CanPush
    /\ \E m \in MessageIDs : DoPush(StartStepStreamPart(m))
CallPushToolCallStart ==
    /\ CanPush
    /\ \E id \in ToolCallIDs, n \in ToolNames : DoPush(ToolCallStartStreamPart(id, n))
CallPushToolCallDelta ==
    /\ CanPush
    /\ \E id \in ToolCallIDs, d \in ArgsDeltas : DoPush(ToolCallDeltaStreamPart(id, d))
CallPushToolCall ==
    /\ CanPush
    /\ \E id \in ToolCallIDs, n \in ToolNames, o \in ArgObjects :
          DoPush(ToolCallStreamPart(id, n, o))
CallPushToolResult ==
    /\ CanPush
    /\ \E id \in ToolCallIDs, r \in Results : DoPush(ToolResultStreamPart(id, r))
CallPushAnnotations ==
    /\ CanPush
    /\ \E p \in {DataStreamDataPart, MessageAnnotationStreamPart} : DoPush(p)
CallPushFinishStep ==
    /\ CanPush
    /\ \E c \in BOOLEAN : DoPush(FinishStepStreamPart(FinishReasonStop, NoUsage, c))
CallPushFinishMessage ==
    /\ CanPush
    /\ DoPush(FinishMessageStreamPart(FinishReasonStop, NoUsage))
CallPushError ==
    /\ CanPush
    /\ DoPush(ErrorStreamPart)
CallPushIgnored ==
    /\ CanPush
    /\ \E p \in {RedactedReasoningStreamPart, ReasoningSignatureStreamPart} : DoPush(p)

NextAcc ==
    \/ CallPushText
    \/ CallPushReasoning
    \/ CallPushFile
    \/ CallPushSource
    \/ CallPushStartStep
    \/ CallPushToolCallStart
    \/ CallPushToolCallDelta
    \/ CallPushToolCall
    \/ CallPushToolResult
    \/ CallPushAnnotations
    \/ CallPushFinishStep
    \/ CallPushFinishMessage
    \/ CallPushError
    \/ CallPushIgnored

SpecAcc == InitAcc /\ [][NextAcc]_vars

\* ------------------------------------------- WithToolCalling, WithAccumulator
\* What the consumer receives from a yield: a part, or an error.  Two fields
\* are history only: `synth` marks the parts WithToolCalling made itself, and
\* `buf` holds, for a forwarded tool-call-delta, the buffer of its id once the
\* delta is added to it.
PartItem(p, synth, buf) == [err |-> FALSE, part |-> Ptr(p), synth |-> synth, buf |-> buf]
ErrItem == [err |-> TRUE, part |-> Nil, synth |-> FALSE, buf |-> Nil]
UpError == [tag |-> "!"]

\* WithToolCalling calls yield(p, nil) and gets `ok` back; `c` is what the
\* consumer at the end of the chain answers.  With WithAccumulator in between,
\* the part is pushed first: a Push error is yielded in place of the part and
\* ends the loop (false goes upstream), otherwise the part is yielded and the
\* consumer's answer is dropped (true goes upstream).
YieldDown(p, synth, buf, c, ok) ==
    IF useAcc
    THEN LET r == Push(acc, p)
         IN /\ acc' = r.acc
            /\ out' = Append(out, IF r.err THEN ErrItem ELSE PartItem(p, synth, buf))
            /\ ok = ~r.err
            /\ halted' = (halted \/ ~c)
    ELSE /\ out' = Append(out, PartItem(p, synth, buf))
         /\ ok = c
         /\ halted' = ~c
         /\ UNCHANGED acc

\* WithToolCalling's yield returned false: it returns, and so the upstream's
\* yield returns false.  An upstream that tests the result returns.
MWReturnFalse ==
    /\ mpc' = "done"
    /\ yieldFalse' = TRUE
    /\ upc' = IF checked' THEN "done" ELSE upc
    /\ UNCHANGED <<partialToolCalls, step, mcall, mresult>>

ZeroPartial == [text |-> <<>>, step |-> 0, toolName |-> ""]

\* processDelta: the buffer of the id after the delta.
processDelta(id, delta) ==
    LET partialCall == IF id \in DOMAIN partialToolCalls
                       THEN partialToolCalls[id] ELSE ZeroPartial
    IN [partialCall EXCEPT !.text = @ \o delta]

\* Mutant of MWSwitch: a ready-made tool-call part is only forwarded.
MWSwitch_IgnoreToolCall(p) ==
    CASE p.tag = "f" ->
           /\ step' = step + 1
           /\ mpc' = "idle"
           /\ UNCHANGED <<partialToolCalls, mcall, mresult>>
      [] p.tag = "b" ->
           /\ partialToolCalls' =
                With(partialToolCalls, p.toolCallId,
                     [text |-> <<>>, step |-> step, toolName |-> p.toolName])
           /\ mpc' = "idle"
           /\ UNCHANGED <<step, mcall, mresult>>
      [] p.tag = "c" ->
           LET partialCall == processDelta(p.toolCallId, p.argsTextDelta)
               parsed == Unmarshal(partialCall.text)
           IN /\ partialToolCalls' = With(partialToolCalls, p.toolCallId, partialCall)
              /\ IF parsed.ok
                 THEN /\ mcall' = Ptr([id |-> p.toolCallId, name |-> partialCall.toolName,
                                       args |-> parsed.obj])
                      /\ mpc' = "toolcall"
                 ELSE /\ mpc' = "idle"
                      /\ UNCHANGED mcall
              /\ UNCHANGED <<step, mresult>>
      [] p.tag = "e" ->
           /\ partialToolCalls' = <<>>
           /\ mpc' = "idle"
           /\ UNCHANGED <<step, mcall, mresult>>
      [] OTHER ->
           /\ mpc' = "idle"
           /\ UNCHANGED <<partialToolCalls, step, mcall, mresult>>

\* The type switch of the loop body, up to the first yield or handler call
\* it leads to.
MWSwitch(p) ==
    CASE p.tag = "f" ->
           /\ step' = step + 1
           /\ mpc' = "idle"
           /\ UNCHANGED <<partialToolCalls, mcall, mresult>>
      [] p.tag = "b" ->
           /\ partialToolCalls' =
                With(partialToolCalls, p.toolCallId,
                     [text |-> <<>>, step |-> step, toolName |-> p.toolName])
           /\ mpc' = "idle"
           /\ UNCHANGED <<step, mcall, mresult>>
      [] p.tag = "c" ->
           LET partialCall == processDelta(p.toolCallId, p.argsTextDelta)
               parsed == Unmarshal(partialCall.text)
           IN /\ partialToolCalls' = With(partialToolCalls, p.toolCallId, partialCall)
              /\ IF parsed.ok
                 THEN /\ mcall' = Ptr([id |-> p.toolCallId, name |-> partialCall.toolName,
                                       args |-> parsed.obj])
                      /\ mpc' = "toolcall"
                 ELSE /\ mpc' = "idle"
                      /\ UNCHANGED mcall
              /\ UNCHANGED <<step, mresult>>
      [] p.tag = "9" ->
           /\ mcall' = Ptr([id |-> p.toolCallId, name |-> p.toolName, args |-> p.args])
           /\ mpc' = "toolcall"
           /\ UNCHANGED <<partialToolCalls, step, mresult>>
      [] p.tag = "e" ->
           /\ partialToolCalls' = <<>>
           /\ mpc' = "idle"
           /\ UNCHANGED <<step, mcall, mresult>>
      [] OTHER ->
           /\ mpc' = "idle"
           /\ UNCHANGED <<partialToolCalls, step, mcall, mresult>>

\* A loop body that does not forward the tool-call parts of the upstream.
MWBody_DropToolCall(p) ==
    /\ up' = Append(up, p)
    /\ IF p.tag = "9"
       THEN /\ MWSwitch(p)
            /\ UNCHANGED <<acc, out, halted, upc, yieldFalse>>
       ELSE \E c, ok \in BOOLEAN :
              /\ YieldDown(p, FALSE,
                           IF p.tag = "c"
                           THEN Ptr(processDelta(p.toolCallId, p.argsTextDelta))
                           ELSE Nil,
                           c, ok)
              /\ IF ok THEN MWSwitch(p) /\ UNCHANGED <<upc, yieldFalse>>
                       ELSE MWReturnFalse
    /\ UNCHANGED calls

\* The loop body of WithToolCalling for (p, nil): forward, then switch.
MWBody(p) ==
    /\ up' = Append(up, p)
    /\ \E c, ok \in BOOLEAN :
         /\ YieldDown(p, FALSE,
                      IF p.tag = "c" THEN Ptr(processDelta(p.toolCallId, p.argsTextDelta))
                      ELSE Nil,
                      c, ok)
         /\ IF ok THEN MWSwitch(p) /\ UNCHANGED <<upc, yieldFalse>>
                  ELSE MWReturnFalse
    /\ UNCHANGED calls

\* The loop body for (nil, err): the error is yielded and the loop ends.
\* WithAccumulator does the same with the error it is handed.
MWBodyErr ==
    /\ up' = Append(up, UpError)
    /\ out' = Append(out, ErrItem)
    /\ \E c \in BOOLEAN : halted' = (halted \/ ~c)
    /\ mpc' = "done"
    /\ yieldFalse' = TRUE
    /\ upc' = IF checked' THEN "done" ELSE upc
    /\ UNCHANGED <<acc, partialToolCalls, step, mcall, mresult, calls>>

\* processToolCall without its tool-call yield.
MWYieldToolCall_Skip ==
    /\ mpc = "toolcall"
    /\ mpc' = "handler"
    /\ UNCHANGED <<acc, accHist, useAcc, convVars, upc, partialToolCalls, step, mcall, mresult, up, out,
                   calls, halted, srcVars, yieldFalse>>

\* processToolCall: yield the tool-call part.
MWYieldToolCall ==
    /\ mpc = "toolcall"
    /\ UNCHANGED srcVars
    /\ LET tc == Deref(mcall)
       IN \E c, ok \in BOOLEAN :
            /\ YieldDown(ToolCallStreamPart(tc.id, tc.name, tc.args), TRUE, Nil, c, ok)
            /\ IF ok THEN /\ mpc' = "handler"
                          /\ UNCHANGED <<upc, yieldFalse, partialToolCalls, step, mcall,
                                         mresult>>
                     ELSE MWReturnFalse
    /\ UNCHANGED <<useAcc, convVars, up, calls, accHist>>

\* processToolCall: call the handler.
MWCallHandler ==
    /\ mpc = "handler"
    /\ \E r \in HandlerResults :
         /\ mresult' = Ptr(r)
         /\ calls' = Append(calls, [call |-> Deref(mcall), result |-> r, at |-> Len(out)])
    /\ mpc' = "toolresult"
    /\ UNCHANGED <<acc, accHist, useAcc, convVars, upc, partialToolCalls, step, mcall, up, out, halted,
                   srcVars, yieldFalse>>

\* A loop body that keeps the buffer of the id after the tool-result.
MWYieldToolResult_KeepBuffer ==
    /\ mpc = "toolresult"
    /\ UNCHANGED srcVars
    /\ LET tc == Deref(mcall)
       IN \E c, ok \in BOOLEAN :
            /\ YieldDown(ToolResultStreamPart(tc.id, Deref(mresult)), TRUE, Nil, c, ok)
            /\ IF ok THEN /\ mpc' = "idle"
                          /\ mcall' = Nil
                          /\ mresult' = Nil
                          /\ UNCHANGED <<upc, yieldFalse, step, partialToolCalls>>
                     ELSE MWReturnFalse
    /\ UNCHANGED <<useAcc, convVars, up, calls, accHist>>

\* processToolCall: yield the tool-result part; back in the loop body, the
\* buffer of the id is deleted.
MWYieldToolResult ==
    /\ mpc = "toolresult"
    /\ UNCHANGED srcVars
    /\ LET tc == Deref(mcall)
       IN \E c, ok \in BOOLEAN :
            /\ YieldDown(ToolResultStreamPart(tc.id, Deref(mresult)), TRUE, Nil, c, ok)
            /\ IF ok THEN /\ partialToolCalls' = Without(partialToolCalls, tc.id)
                          /\ mpc' = "idle"
                          /\ mcall' = Nil
                          /\ mresult' = Nil
                          /\ UNCHANGED <<upc, yieldFalse, step>>
                     ELSE MWReturnFalse
    /\ UNCHANGED <<useAcc, convVars, up, calls, accHist>>

\* ------------------------------------------------ an arbitrary upstream
RawParts ==
    {TextStreamPart(<<"a">>), StartStepStreamPart(<<"m1">>),
     FinishMessageStreamPart(FinishReasonStop, NoUsage)}
    \cup {FinishStepStreamPart(FinishReasonStop, NoUsage, c) : c \in BOOLEAN}
    \cup {ToolCallStartStreamPart(id, n) : id \in ToolCallIDs, n \in ToolNames}
    \cup {ToolCallDeltaStreamPart(id, d) : id \in ToolCallIDs, d \in UpArgsDeltas}
    \cup {ToolCallStreamPart(id, n, o) : id \in ToolCallIDs, n \in ToolNames, o \in ArgObjects}
    \cup {ToolResultStreamPart(id, r) : id \in ToolCallIDs, r \in Results}

\* The upstream yields a part.
RawYield ==
    /\ upc = "run"
    /\ mpc = "idle"
    /\ Len(up) < MaxUp
    /\ UNCHANGED srcVars
    /\ \E p \in RawParts : MWBody(p)
    /\ UNCHANGED <<useAcc, convVars, accHist>>

\* The upstream yields an error.
RawFail ==
    /\ upc = "run"
    /\ mpc = "idle"
    /\ Len(up) < MaxUp
    /\ UNCHANGED srcVars
    /\ MWBodyErr
    /\ UNCHANGED <<useAcc, convVars, accHist>>

\* The upstream returns: the range loop, and WithToolCalling, end.
RawEnd ==
    /\ upc = "run"
    /\ mpc = "idle"
    /\ upc' = "done"
    /\ mpc' = "done"
    /\ UNCHANGED <<acc, accHist, useAcc, convVars, partialToolCalls, step, mcall, mresult, up, out,
                   calls, halted, srcVars, yieldFalse>>

NextMW ==
    \/ RawYield
    \/ RawFail
    \/ RawEnd
    \/ MWYieldToolCall
    \/ MWCallHandler
    \/ MWYieldToolResult

\* stream.WithToolCalling(h), drained by a consumer that may stop.
InitMW ==
    /\ acc = DataStreamAccumulator
    /\ InitAccHist
    /\ InitChain(FALSE)
    /\ InitRaw
    /\ InitNoConv

SpecMW == InitMW /\ [][NextMW]_vars

\* stream.WithToolCalling(h).WithAccumulator(acc), drained by a consumer.
InitPipe ==
    /\ acc = DataStreamAccumulator
    /\ InitAccHist
    /\ InitChain(TRUE)
    /\ InitRaw
    /\ InitNoConv

SpecPipe == InitPipe /\ [][NextMW]_vars

\* A yield call whose result the adapter never tests.
Yield_Unchecked(p, chk) == [err |-> FALSE, part |-> Ptr(p), chk |-> FALSE]

\* ------------------------------------------------------ provider adapters
\* A yield call an adapter has to make: yield(part, nil) or yield(nil, err),
\* and whether the adapter tests what the call returns.
Yield(p, chk) == [err |-> FALSE, part |-> Ptr(p), chk |-> chk]
YieldErr(chk) == [err |-> TRUE, part |-> Nil, chk |-> chk]

\* uuid.New().String(): the n-th identifier drawn.
UUID(n) == "u" \o ToString(n)

\* --- OpenAIToDataStream
\* A ChatCompletionChunk: its Choices, of which the adapter reads the first;
\* a choice has Delta.Content, Delta.ToolCalls and FinishReason.
\* A delta.toolCalls entry carries the Index of the tool call it belongs to;
\* the ID and the name come with the first entry for an index only.
OpenAIToolCallDeltaAt(index, id, name, arguments) ==
    [index |-> index, id |-> id, name |-> name, arguments |-> arguments]
OpenAIToolCallDelta(id, name, arguments) == OpenAIToolCallDeltaAt(0, id, name, arguments)
OpenAIChoice(content, toolCalls, finishReason) ==
    [choices |-> <<[content |-> content, toolCalls |-> toolCalls,
                    finishReason |-> finishReason]>>]
OpenAIChunks ==
    {[choices |-> <<>>],
     OpenAIChoice(<<"a">>, <<>>, ""),
     OpenAIChoice(<<>>, <<OpenAIToolCallDelta("t1", "f", <<>>)>>, ""),
     OpenAIChoice(<<>>, <<OpenAIToolCallDelta("", "", <<"{", "}">>)>>, ""),
     OpenAIChoice(<<>>, <<OpenAIToolCallDelta("t1", "f", <<"{">>),
                          OpenAIToolCallDelta("", "", <<"}">>)>>, ""),
     OpenAIChoice(<<>>, <<OpenAIToolCallDeltaAt(1, "t2", "f", <<"{", "}">>)>>, "tool_calls"),
     OpenAIChoice(<<>>, <<>>, "stop"),
     OpenAIChoice(<<>>, <<>>, "tool_calls"),
     OpenAIChoice(<<>>, <<>>, "length")}

\* The switch on choice.FinishReason.
OpenAIFinishReason(finishReason) ==
    IF finishReason = "tool_calls" THEN FinishReasonToolCalls ELSE FinishReasonStop

RECURSIVE OpenAIToolCalls(_, _)
\* The loop over choice.Delta.ToolCalls: the yields it makes, and
\* currentToolCallID after it.
OpenAIToolCalls(currentToolCallID, toolCalls) ==
    IF toolCalls = <<>>
    THEN [currentToolCallID |-> currentToolCallID, pend |-> <<>>]
    ELSE LET toolCallDelta == Head(toolCalls)
             id == IF toolCallDelta.id # "" THEN toolCallDelta.id ELSE currentToolCallID
             start == IF toolCallDelta.id # ""
                      THEN <<Yield(ToolCallStartStreamPart(id, toolCallDelta.name), TRUE)>>
                      ELSE <<>>
             delta == IF toolCallDelta.arguments = <<>> THEN <<>>
                      ELSE IF id = "" THEN <<YieldErr(TRUE)>>
                      ELSE <<Yield(ToolCallDeltaStreamPart(id, toolCallDelta.arguments),
                                   TRUE)>>
             rest == OpenAIToolCalls(id, Tail(toolCalls))
         IN [currentToolCallID |-> rest.currentToolCallID,
             pend |-> start \o delta \o rest.pend]

\* Before the loop: a stream that already carries an error gets an error part.
OpenAIInit(err) ==
    [ad |-> [currentToolCallID |-> "", lastChunk |-> Nil, err |-> err],
     pend |-> IF err THEN <<Yield(ErrorStreamPart, TRUE)>> ELSE <<>>]

\* The loop body for one chunk: the locals after it, the yields it makes, and
\* whether it breaks out of the loop.
OpenAIBody(a, chunk) ==
    IF chunk.choices = <<>>
    THEN [ad |-> [a EXCEPT !.lastChunk = Ptr(chunk)], pend |-> <<>>, brk |-> TRUE]
    ELSE LET choice == chunk.choices[1]
             text == IF choice.content # <<>>
                     THEN <<Yield(TextStreamPart(choice.content), TRUE)>> ELSE <<>>
             tcs == OpenAIToolCalls(a.currentToolCallID, choice.toolCalls)
             fin == IF choice.finishReason # ""
                    THEN <<Yield(FinishStepStreamPart(
                                     OpenAIFinishReason(choice.finishReason),
                                     NoUsage, FALSE), TRUE)>>
                    ELSE <<>>
         IN [ad |-> [a EXCEPT !.lastChunk = Ptr(chunk),
                              !.currentToolCallID = tcs.currentToolCallID],
             pend |-> text \o tcs.pend \o fin,
             brk |-> FALSE]

\* After the loop: the finish-message, its reason taken from the last chunk.
\* The stream's error, if any, is not looked at.
OpenAITail(a, err) ==
    LET finishReason ==
            IF a.lastChunk # Nil /\ Deref(a.lastChunk).choices # <<>>
            THEN OpenAIFinishReason(Deref(a.lastChunk).choices[1].finishReason)
            ELSE ""
    IN <<Yield(FinishMessageStreamPart(finishReason, NoUsage), FALSE)>>

\* --- AnthropicToDataStream
\* A MessageStreamEventUnion, with the fields the adapter reads.
AnthropicEvents ==
    {[type |-> "message_start", id |-> <<"m1">>],
     [type |-> "content_block_start", block |-> "text", id |-> "", name |-> ""],
     [type |-> "content_block_start", block |-> "tool_use", id |-> "t1", name |-> "f"],
     [type |-> "content_block_delta", delta |-> "text_delta", text |-> <<"a">>],
     [type |-> "content_block_delta", delta |-> "thinking_delta", text |-> <<"a">>],
     [type |-> "content_block_delta", delta |-> "signature_delta", text |-> <<"a">>],
     [type |-> "content_block_delta", delta |-> "input_json_delta", text |-> <<"{">>],
     [type |-> "content_block_delta", delta |-> "input_json_delta", text |-> <<"{", "}">>],
     [type |-> "content_block_stop"],
     [type |-> "message_delta", stopReason |-> "tool_use", outputTokens |-> 5],
     [type |-> "message_delta", stopReason |-> "end_turn", outputTokens |-> 5],
     [type |-> "message_delta", stopReason |-> "max_tokens", outputTokens |-> 0],
     [type |-> "message_stop"]}

AnthropicInit(err) ==
    [ad |-> [lastChunk |-> Nil, finalReason |-> FinishReasonUnknown,
             finalUsage |-> NoUsage,
             currentToolCall |-> [ID |-> "", Args |-> <<>>], err |-> err],
     pend |-> <<>>]

\* The loop body for one event: the locals after it and the yields it makes.
AnthropicBody(a0, event) ==
    LET a == [a0 EXCEPT !.lastChunk = Ptr(event.type)]
    IN CASE event.type = "message_start" ->
              [ad |-> a, pend |-> <<Yield(StartStepStreamPart(event.id), TRUE)>>, brk |-> FALSE]
         [] event.type = "content_block_delta" /\ event.delta = "text_delta" ->
              [ad |-> a, pend |-> <<Yield(TextStreamPart(event.text), TRUE)>>, brk |-> FALSE]
         [] event.type = "content_block_delta" /\ event.delta = "input_json_delta" ->
              [ad |-> [a EXCEPT !.currentToolCall.Args = @ \o event.text],
               pend |-> <<Yield(ToolCallDeltaStreamPart(a.currentToolCall.ID, event.text),
                                TRUE)>>,
               brk |-> FALSE]
         [] event.type = "content_block_delta" /\ event.delta = "thinking_delta" ->
              [ad |-> a, pend |-> <<Yield(ReasoningStreamPart(event.text), TRUE)>>,
               brk |-> FALSE]
         [] event.type = "content_block_start" /\ event.block = "tool_use" ->
              [ad |-> [a EXCEPT !.currentToolCall = [ID |-> event.id, Args |-> <<>>]],
               pend |-> <<Yield(ToolCallStartStreamPart(event.id, event.name), TRUE)>>,
               brk |-> FALSE]
         [] event.type = "message_delta" /\ event.stopReason = "tool_use" ->
              [ad |-> [a EXCEPT !.finalReason = FinishReasonToolCalls,
                                !.finalUsage.completionTokens =
                                    IF event.outputTokens # 0
                                    THEN Ptr(event.outputTokens) ELSE @,
                                !.currentToolCall = [ID |-> "", Args |-> <<>>]],
               pend |-> <<>>, brk |-> FALSE]
         [] event.type = "message_stop" ->
              LET finalReason == IF a.finalReason = FinishReasonUnknown
                                 THEN FinishReasonStop ELSE a.finalReason
              IN [ad |-> [a EXCEPT !.finalReason = finalReason],
                  pend |-> <<Yield(FinishStepStreamPart(finalReason, a.finalUsage, FALSE),
                                   TRUE),
                             Yield(FinishMessageStreamPart(finalReason, a.finalUsage),
                                   TRUE)>>,
                  brk |-> FALSE]
         [] OTHER -> [ad |-> a, pend |-> <<>>, brk |-> FALSE]

\* After the loop: the stream's error, or a finish-message unless the last
\* event was message_stop.
AnthropicTail(a, err) ==
    IF err THEN <<YieldErr(FALSE)>>
    ELSE IF a.lastChunk = Nil \/ Deref(a.lastChunk) # "message_stop"
    THEN <<Yield(FinishMessageStreamPart(
                     IF a.finalReason = FinishReasonUnknown
                     THEN FinishReasonError ELSE a.finalReason,
                     a.finalUsage), FALSE)>>
    ELSE <<>>

\* --- GoogleToDataStream
\* encoding/json.Marshal of a FunctionCall's Args: the text of the object,
\* null for a nil map, or an error for a value JSON cannot represent.
Marshal(args) ==
    IF args = "{}" THEN [ok |-> TRUE, text |-> <<"{", "}">>]
    ELSE IF args = "{k}" THEN [ok |-> TRUE, text |-> <<"{", "k", "}">>]
    ELSE IF args = "nil" THEN [ok |-> TRUE, text |-> <<"n">>]
    ELSE [ok |-> FALSE, text |-> <<>>]

GoogleText(t) == [functionCall |-> Nil, text |-> t, thought |-> FALSE]
GoogleThought(t) == [functionCall |-> Nil, text |-> t, thought |-> TRUE]
GoogleFunctionCall(name, args) ==
    [functionCall |-> Ptr([name |-> name, args |-> args]), text |-> <<>>,
     thought |-> FALSE]
\* A GenerateContentResponse whose first candidate has the content and the
\* finish reason given.
GoogleResp(content, finishReason, usage) ==
    [candidates |-> <<[content |-> content, finishReason |-> finishReason]>>,
     usageMetadata |-> usage]
GoogleUsage(p, c) == Ptr([promptTokenCount |-> p, candidatesTokenCount |-> c])

\* What the vendor iterator hands over: (nil, nil), or (resp, nil).
GoogleResponses ==
    {Nil,
     Ptr([candidates |-> <<>>, usageMetadata |-> Nil]),
     Ptr(GoogleResp(Nil, "STOP", Nil)),
     Ptr(GoogleResp(Ptr(<<GoogleText(<<"a">>)>>), "", Nil)),
     Ptr(GoogleResp(Ptr(<<GoogleThought(<<"a">>), GoogleText(<<>>)>>), "", Nil)),
     Ptr(GoogleResp(Ptr(<<GoogleFunctionCall("f", "{}")>>), "", Nil)),
     Ptr(GoogleResp(Ptr(<<GoogleFunctionCall("f", "bad")>>), "STOP", Nil)),
     Ptr(GoogleResp(Ptr(<<GoogleFunctionCall("f", "nil"), GoogleText(<<"a">>)>>),
                    "STOP", GoogleUsage(Ptr(1), Nil))),
     Ptr(GoogleResp(Ptr(<<GoogleText(<<"a">>)>>), "MAX_TOKENS",
                    GoogleUsage(Ptr(1), Ptr(2)))),
     Ptr(GoogleResp(Ptr(<<>>), "SAFETY", Nil))}

GoogleInit(err) ==
    [ad |-> [finalReason |-> FinishReasonUnknown, isNewMessageSegment |-> TRUE,
             lastResp |-> Nil, nUUID |-> 0, err |-> err],
     pend |-> <<>>]

RECURSIVE GoogleParts(_, _, _)
\* The loop over content.Parts: the yields it makes, finalReason after it
\* and the number of identifiers drawn.
GoogleParts(finalReason, nUUID, parts) ==
    IF parts = <<>>
    THEN [finalReason |-> finalReason, nUUID |-> nUUID, pend |-> <<>>]
    ELSE LET part == Head(parts)
         IN IF part.functionCall # Nil
            THEN LET fc == Deref(part.functionCall)
                     toolCallID == UUID(nUUID + 1)
                     argsJSON == Marshal(fc.args)
                     rest == GoogleParts(IF argsJSON.ok THEN finalReason
                                         ELSE FinishReasonToolCalls,
                                         nUUID + 1, Tail(parts))
                 IN [rest EXCEPT !.pend =
                        <<Yield(ToolCallStartStreamPart(toolCallID, fc.name), TRUE)>>
                        \o (IF argsJSON.ok
                            THEN <<Yield(ToolCallDeltaStreamPart(toolCallID, argsJSON.text),
                                         TRUE),
                                   Yield(ErrorStreamPart, TRUE)>>
                            ELSE <<>>)
                        \o @]
            ELSE LET rest == GoogleParts(finalReason, nUUID, Tail(parts))
                 IN IF part.text = <<>> THEN rest
                    ELSE [rest EXCEPT !.pend =
                            <<Yield(IF part.thought THEN ReasoningStreamPart(part.text)
                                    ELSE TextStreamPart(part.text), TRUE)>> \o @]

\* A loop body that does not record the identifiers it has drawn.
GoogleBody_SameIds(a0, resp) ==
    IF resp = Nil THEN [ad |-> a0, pend |-> <<>>, brk |-> FALSE]
    ELSE LET a == [a0 EXCEPT !.lastResp = resp]
             r == Deref(resp)
         IN IF r.candidates = <<>> \/ r.candidates[1].content = Nil
            THEN [ad |-> a, pend |-> <<>>, brk |-> FALSE]
            ELSE LET content == Deref(r.candidates[1].content)
                     nStart == IF a.isNewMessageSegment THEN a.nUUID + 1 ELSE a.nUUID
                     ps == GoogleParts(a.finalReason, nStart, content)
                 IN [ad |-> [a EXCEPT !.isNewMessageSegment = FALSE,
                                      !.finalReason = ps.finalReason],
                     pend |-> (IF a.isNewMessageSegment
                               THEN <<Yield(StartStepStreamPart(<<UUID(nStart)>>), TRUE)>>
                               ELSE <<>>) \o ps.pend,
                     brk |-> FALSE]

\* The loop body for (resp, nil).
GoogleBody(a0, resp) ==
    IF resp = Nil THEN [ad |-> a0, pend |-> <<>>, brk |-> FALSE]
    ELSE LET a == [a0 EXCEPT !.lastResp = resp]
             r == Deref(resp)
         IN IF r.candidates = <<>> \/ r.candidates[1].content = Nil
            THEN [ad |-> a, pend |-> <<>>, brk |-> FALSE]
            ELSE LET content == Deref(r.candidates[1].content)
                     nStart == IF a.isNewMessageSegment THEN a.nUUID + 1 ELSE a.nUUID
                     ps == GoogleParts(a.finalReason, nStart, content)
                 IN [ad |-> [a EXCEPT !.isNewMessageSegment = FALSE,
                                      !.finalReason = ps.finalReason,
                                      !.nUUID = ps.nUUID],
                     pend |-> (IF a.isNewMessageSegment
                               THEN <<Yield(StartStepStreamPart(<<UUID(nStart)>>), TRUE)>>
                               ELSE <<>>) \o ps.pend,
                     brk |-> FALSE]

\* The switch on the last candidate's FinishReason.
GoogleFinishReason(finishReason) ==
    CASE finishReason = "STOP" -> FinishReasonStop
      [] finishReason = "MAX_TOKENS" -> FinishReasonLength
      [] finishReason = "SAFETY" -> FinishReasonContentFilter
      [] finishReason = "RECITATION" -> FinishReasonContentFilter
      [] finishReason = "FINISH_REASON_UNSPECIFIED" -> FinishReasonUnknown
      [] OTHER -> FinishReasonOther

\* After the loop: finish-step and finish-message.  An error from the stream
\* is yielded instead, and nothing after it.
GoogleTail(a, err) ==
    IF err THEN <<YieldErr(FALSE)>>
    ELSE LET lastResp == a.lastResp
             finalCand == IF lastResp # Nil /\ Deref(lastResp).candidates # <<>>
                          THEN Ptr(Deref(lastResp).candidates[1]) ELSE Nil
             actualFinalReason ==
                 IF a.finalReason = FinishReasonToolCalls THEN FinishReasonToolCalls
                 ELSE IF finalCand # Nil THEN GoogleFinishReason(Deref(finalCand).finishReason)
                 ELSE FinishReasonStop
             um == IF lastResp # Nil THEN Deref(lastResp).usageMetadata ELSE Nil
             finalUsage == IF um = Nil THEN NoUsage
                           ELSE [promptTokens |-> Deref(um).promptTokenCount,
                                 completionTokens |-> Deref(um).candidatesTokenCount]
         IN <<Yield(FinishStepStreamPart(actualFinalReason, finalUsage, FALSE), TRUE),
              Yield(FinishMessageStreamPart(actualFinalReason, finalUsage), FALSE)>>

\* --- an adapter feeding WithToolCalling
Adapters == {"openai", "anthropic", "google"}

AdapterInit(s, err) ==
    CASE s = "openai" -> OpenAIInit(err)
      [] s = "anthropic" -> AnthropicInit(err)
      [] s = "google" -> GoogleInit(err)

AdapterEvents(s) ==
    CASE s = "openai" -> OpenAIChunks
      [] s = "anthropic" -> AnthropicEvents
      [] s = "google" -> GoogleResponses

AdapterBody(s, a, ev) ==
    CASE s = "openai" -> OpenAIBody(a, ev)
      [] s = "anthropic" -> AnthropicBody(a, ev)
      [] s = "google" -> GoogleBody(a, ev)

AdapterTail(s, a, err) ==
    CASE s = "openai" -> OpenAITail(a, err)
      [] s = "anthropic" -> AnthropicTail(a, err)
      [] s = "google" -> GoogleTail(a, err)

\* The adapter asks its vendor stream for the next event and gets one: it
\* runs the loop body up to the first yield.
AdPull ==
    /\ upc = "run"
    /\ pend = <<>>
    /\ mpc \in {"idle", "done"}
    /\ ~ad.err
    /\ pulls < MaxEvents
    /\ \E ev \in AdapterEvents(src) :
         LET b == AdapterBody(src, ad, ev)
         IN /\ ad' = b.ad
            /\ pend' = IF b.brk THEN AdapterTail(src, b.ad, FALSE) ELSE b.pend
            /\ upc' = IF b.brk THEN "tail" ELSE upc
            /\ evs' = Append(evs, ev)
    /\ pulls' = pulls + 1
    /\ UNCHANGED <<acc, accHist, useAcc, convVars, mwVars, up, out, calls, halted, src, checked,
                   yieldFalse>>

\* The vendor stream has no further event: it ends, or fails.  The adapter
\* leaves its loop for the code after it.
AdEnd ==
    /\ upc = "run"
    /\ pend = <<>>
    /\ mpc \in {"idle", "done"}
    /\ \E err \in BOOLEAN :
         /\ ad.err => err
         /\ ad' = [ad EXCEPT !.err = err]
         /\ pend' = AdapterTail(src, ad, err)
    /\ upc' = "tail"
    /\ pulls' = pulls + 1
    /\ UNCHANGED <<acc, accHist, useAcc, convVars, mwVars, up, out, calls, halted, src, checked,
                   yieldFalse, evs>>

\* The adapter makes its next yield call: WithToolCalling's loop body runs.
\* A call made after an earlier one returned false is one the Go runtime
\* answers with a panic.
AdYield ==
    /\ upc \in {"run", "tail"}
    /\ pend # <<>>
    /\ mpc \in {"idle", "done"}
    /\ pend' = Tail(pend)
    /\ checked' = Head(pend).chk
    /\ UNCHANGED <<src, ad, pulls, evs, useAcc, convVars, accHist>>
    /\ IF mpc = "done"
       THEN /\ up' = Append(up, IF Head(pend).err THEN UpError
                                ELSE Deref(Head(pend).part))
            /\ upc' = "done"
            /\ UNCHANGED <<acc, mwVars, out, calls, halted, yieldFalse>>
       ELSE IF Head(pend).err THEN MWBodyErr
            ELSE MWBody(Deref(Head(pend).part))

\* The adapter has nothing left to yield after its loop: it returns, and the
\* range loop of WithToolCalling ends.
AdReturn ==
    /\ upc = "tail"
    /\ pend = <<>>
    /\ mpc \in {"idle", "done"}
    /\ upc' = "done"
    /\ mpc' = "done"
    /\ UNCHANGED <<acc, accHist, useAcc, convVars, partialToolCalls, step, mcall, mresult, up, out,
                   calls, halted, srcVars, yieldFalse>>

NextAdapters ==
    \/ AdPull
    \/ AdEnd
    \/ AdYield
    \/ AdReturn
    \/ MWYieldToolCall
    \/ MWCallHandler
    \/ MWYieldToolResult

\* XToDataStream(stream).WithToolCalling(h), drained by a consumer that may
\* stop.  A Google stream is an iterator and cannot have failed beforehand.
InitAdapters ==
    /\ acc = DataStreamAccumulator
    /\ InitAccHist
    /\ InitChain(FALSE)
    /\ \E s \in Adapters, err \in BOOLEAN :
         /\ s = "google" => ~err
         /\ src = s
         /\ ad = AdapterInit(s, err).ad
         /\ pend = AdapterInit(s, err).pend
    /\ checked = TRUE
    /\ pulls = 0
    /\ evs = <<>>
    /\ InitNoConv

SpecAdapters == InitAdapters /\ [][NextAdapters]_vars

\* ------------------------------------------------------------ converters
\* The canonical messages a caller hands to the converters.  `parts` holds
\* Parts as above; a tool-invocation Part carries a *ToolInvocation that may
\* be nil.
CMessage(role, content) == [Message(0) EXCEPT !.role = role, !.content = content]
TextPart(t) == [Part(PartTypeText) EXCEPT !.text = t]
InvPart(inv) == [Part(PartTypeToolInvocation) EXCEPT !.inv = inv]
CallInv(id, args) == Ptr(ToolInvocation(ToolInvocationStateCall, id, "f", args))
ResultInv(id, args, res) ==
    Ptr([ToolInvocation(ToolInvocationStateResult, id, "f", args) EXCEPT !.result = res])

\* encoding/json.Marshal of an `any`: of ToolInvocation.Args (a string is
\* quoted, a map is encoded as Marshal does) ...
MarshalArgs(args) ==
    IF args.isStr THEN [ok |-> TRUE, text |-> <<"\"">> \o args.str \o <<"\"">>]
    ELSE Marshal(args.obj)

\* Mutant of MarshalResult: every result is encoded as null.
MarshalResult_Null(res) == [ok |-> TRUE, text |-> <<"n">>]

\* ... and of ToolInvocation.Result: null for nil, an error for a value JSON
\* cannot represent, else the text of the value.
MarshalResult(res) ==
    IF res = Nil THEN [ok |-> TRUE, text |-> <<"n">>]
    ELSE IF Deref(res) = "bad" THEN [ok |-> FALSE, text |-> <<>>]
    ELSE [ok |-> TRUE, text |-> <<Deref(res)>>]

\* What a converter returns: its messages (and system prompts), or an error
\* with nil in place of them; `panic` when the call does not return.
Converted(messages, system) ==
    [outcome |-> "ok", messages |-> messages, system |-> system]
ConvError == [outcome |-> "error", messages |-> <<>>, system |-> <<>>]
ConvPanic == [outcome |-> "panic", messages |-> <<>>, system |-> <<>>]

\* --- MessagesToAnthropic
\* anthropic.ContentBlockParamUnion: `kind` names the field of the union that
\* is set, "none" when all are nil.
TextBlockParam(text) ==
    [kind |-> "text", text |-> text, id |-> "", name |-> "", input |-> <<>>, content |-> <<>>]
ToolUseBlockParam(id, name, input) ==
    [kind |-> "tool_use", text |-> <<>>, id |-> id, name |-> name, input |-> input,
     content |-> <<>>]
ToolResultBlockParam(toolUseID, content) ==
    [kind |-> "tool_result", text |-> <<>>, id |-> toolUseID, name |-> "", input |-> <<>>,
     content |-> content]
NilBlockParam ==
    [kind |-> "none", text |-> <<>>, id |-> "", name |-> "", input |-> <<>>, content |-> <<>>]
MessageParam(role, content) == [role |-> role, content |-> content]

\* The loop over the Parts of an assistant message.  `st` holds
\* anthropicMessages, currentContent, role and whether an error was returned.
RECURSIVE AnthropicAssistantParts(_, _)
AnthropicAssistantParts(st, parts) ==
    IF parts = <<>> \/ st.err THEN st
    ELSE LET part == Head(parts)
             failed == [st EXCEPT !.err = TRUE]
             next ==
               CASE part.type = PartTypeText ->
                      IF part.text # <<>>
                      THEN [st EXCEPT !.cur = Append(@, TextBlockParam(part.text))]
                      ELSE st
                 [] part.type = PartTypeToolInvocation ->
                      IF part.inv = Nil THEN failed
                      ELSE LET ti == Deref(part.inv)
                               argsJSON == MarshalArgs(ti.args)
                               used == [st EXCEPT !.cur =
                                          Append(@, ToolUseBlockParam(ti.toolCallId, ti.toolName,
                                                                      argsJSON.text))]
                               flushed == IF used.cur # <<>>
                                          THEN [used EXCEPT
                                                  !.msgs = Append(@, MessageParam(used.role,
                                                                                  used.cur)),
                                                  !.cur = <<>>]
                                          ELSE used
                               resultBytes == MarshalResult(ti.result)
                               userResultContent ==
                                 <<ToolResultBlockParam(ti.toolCallId,
                                                        <<TextBlockParam(resultBytes.text)>>)>>
                           IN IF ~argsJSON.ok THEN failed
                              ELSE IF ti.state # ToolInvocationStateResult THEN used
                              ELSE IF ~resultBytes.ok THEN failed
                              ELSE [flushed EXCEPT
                                      !.msgs = Append(@, MessageParam("user", userResultContent)),
                                      !.role = ""]
                 [] OTHER -> st
         IN AnthropicAssistantParts(next, Tail(parts))

\* The loop over the Parts of a user or tool message.
RECURSIVE AnthropicUserParts(_, _, _)
AnthropicUserParts(st, parts, message) ==
    IF st.err THEN st
    ELSE IF parts = <<>>
    THEN IF st.cur = <<>> /\ message.content # <<>>
         THEN [st EXCEPT !.cur = <<TextBlockParam(message.content)>>]
         ELSE st
    ELSE LET part == Head(parts)
             failed == [st EXCEPT !.err = TRUE]
             next ==
               CASE part.type = PartTypeText ->
                      IF part.text # <<>>
                      THEN [st EXCEPT !.cur = Append(@, TextBlockParam(part.text))]
                      ELSE st
                 [] part.type = PartTypeToolInvocation ->
                      IF part.inv = Nil THEN failed
                      ELSE LET ti == Deref(part.inv)
                               resultBytes == MarshalResult(ti.result)
                           IN IF ti.state # ToolInvocationStateResult THEN failed
                              ELSE IF ~resultBytes.ok THEN failed
                              ELSE [st EXCEPT !.cur =
                                      Append(@, ToolResultBlockParam(
                                                  ti.toolCallId,
                                                  <<TextBlockParam(resultBytes.text)>>))]
                 [] OTHER -> st
         IN AnthropicUserParts(next, Tail(parts), message)

\* The texts a system message adds to systemPrompts.
RECURSIVE SystemTexts(_)
SystemTexts(parts) ==
    IF parts = <<>> THEN <<>>
    ELSE (IF Head(parts).type = PartTypeText /\ Head(parts).text # <<>>
          THEN <<Head(parts).text>> ELSE <<>>)
         \o SystemTexts(Tail(parts))

\* The end of the loop body: the message is added, or merged into the last
\* one when that has the same role.
AnthropicAdd(st) ==
    IF st.cur # <<>> /\ st.role # ""
    THEN LET lastIdx == Len(st.msgs)
         IN IF lastIdx >= 1 /\ st.msgs[lastIdx].role = st.role
            THEN [st EXCEPT !.msgs[lastIdx].content = @ \o st.cur]
            ELSE [st EXCEPT !.msgs = Append(@, MessageParam(st.role, st.cur))]
    ELSE st

RECURSIVE AnthropicLoop(_, _)
AnthropicLoop(st0, messages) ==
    IF messages = <<>> \/ st0.err THEN st0
    ELSE LET message == Head(messages)
             st == [st0 EXCEPT !.cur = <<>>, !.role = ""]
             next ==
               CASE message.role = "system" ->
                      [st EXCEPT !.system = @ \o <<message.content>>
                                               \o SystemTexts(message.parts)]
                 [] message.role = "assistant" ->
                      AnthropicAdd(AnthropicAssistantParts([st EXCEPT !.role = "assistant"],
                                                           message.parts))
                 [] message.role \in {"user", "tool"} ->
                      AnthropicAdd(AnthropicUserParts([st EXCEPT !.role = "user"],
                                                      message.parts, message))
                 [] OTHER -> [st EXCEPT !.err = TRUE]
         IN AnthropicLoop(next, Tail(messages))

MessagesToAnthropic(messages) ==
    LET st == AnthropicLoop([msgs |-> <<>>, system |-> <<>>, cur |-> <<>>, role |-> "",
                             err |-> FALSE], messages)
    IN IF st.err THEN ConvError ELSE Converted(st.msgs, st.system)

\* --- MessagesToOpenAI
\* openai.ChatCompletionMessageParamUnion: `role` names the field of the
\* union that is set.  `content` is the array of content parts (the text for
\* a system message), `toolCalls` the assistant's ToolCalls, `toolCallId`
\* the tool message's ToolCallID.
OpenAIMessage(role, content, toolCalls, toolCallId) ==
    [role |-> role, content |-> content, toolCalls |-> toolCalls, toolCallId |-> toolCallId]
OpenAITextPart(text) == [kind |-> "text", text |-> text]
OpenAIImagePart == [kind |-> "image_url", text |-> <<>>]
\* Mutant of OpenAIToolCallParam: the ID is left empty.
OpenAIToolCallParam_NoId(id, name, arguments) ==
    [id |-> "", name |-> name, arguments |-> arguments]
OpenAIToolCallParam(id, name, arguments) == [id |-> id, name |-> name, arguments |-> arguments]

\* toolResultToParts for a result that is neither a Part nor a []Part.
toolResultToParts(result) ==
    LET jsonData == MarshalResult(result)
    IN [ok |-> jsonData.ok,
        parts |-> IF jsonData.ok THEN <<TextPart(jsonData.text)>> ELSE <<>>]

\* The content parts of a user message.
RECURSIVE OpenAIUserContent(_)
OpenAIUserContent(parts) ==
    IF parts = <<>> THEN <<>>
    ELSE (CASE Head(parts).type = PartTypeText -> <<OpenAITextPart(Head(parts).text)>>
            [] Head(parts).type = PartTypeFile -> <<OpenAIImagePart>>
            [] OTHER -> <<>>)
         \o OpenAIUserContent(Tail(parts))

\* The texts of a tool message made from the Parts of a result.
RECURSIVE OpenAIResultTexts(_)
OpenAIResultTexts(resultParts) ==
    IF resultParts = <<>> THEN <<>>
    ELSE (CASE Head(resultParts).type = PartTypeText ->
                 <<OpenAITextPart(Head(resultParts).text)>>
            [] Head(resultParts).type = PartTypeFile ->
                 <<OpenAITextPart(<<"file">>)>>
            [] OTHER -> <<>>)
         \o OpenAIResultTexts(Tail(resultParts))

\* The loop over the Parts of an assistant message.  `st` holds
\* openaiMessages, the ChatCompletionAssistantMessageParam being filled
\* (`content`, `toolCalls`) and whether an error was returned.
RECURSIVE OpenAIAssistantParts(_, _)
OpenAIAssistantParts(st, parts) ==
    IF parts = <<>> \/ st.err THEN st
    ELSE LET part == Head(parts)
             failed == [st EXCEPT !.err = TRUE]
             next ==
               CASE part.type = PartTypeText ->
                      [st EXCEPT !.content = Append(@, OpenAITextPart(part.text))]
                 [] part.type = PartTypeToolInvocation ->
                      IF part.inv = Nil THEN failed
                      ELSE LET ti == Deref(part.inv)
                               argsJSON == MarshalArgs(ti.args)
                               called == [st EXCEPT !.toolCalls =
                                            Append(@, OpenAIToolCallParam(ti.toolCallId,
                                                                          ti.toolName,
                                                                          argsJSON.text))]
                               flushed == [called EXCEPT
                                             !.msgs = Append(@, OpenAIMessage("assistant",
                                                                              called.content,
                                                                              called.toolCalls,
                                                                              "")),
                                             !.content = <<>>,
                                             !.toolCalls = <<>>]
                               resultParts == toolResultToParts(ti.result)
                           IN IF ~argsJSON.ok THEN failed
                              ELSE IF ti.state # ToolInvocationStateResult THEN called
                              ELSE IF ~resultParts.ok THEN failed
                              ELSE [flushed EXCEPT
                                      !.msgs = Append(@, OpenAIMessage(
                                                           "tool",
                                                           OpenAIResultTexts(resultParts.parts),
                                                           <<>>, ti.toolCallId))]
                 [] OTHER -> st
         IN OpenAIAssistantParts(next, Tail(parts))

\* After the loop over the Parts: what is left is added when it has text,
\* as a message with that text only.
OpenAIAssistantRest(st) ==
    IF ~st.err /\ st.content # <<>>
    THEN [st EXCEPT !.msgs = Append(@, OpenAIMessage("assistant", st.content, <<>>, ""))]
    ELSE st

RECURSIVE OpenAILoop(_, _)
OpenAILoop(st0, messages) ==
    IF messages = <<>> \/ st0.err THEN st0
    ELSE LET message == Head(messages)
             st == [st0 EXCEPT !.content = <<>>, !.toolCalls = <<>>]
             next ==
               CASE message.role = "system" ->
                      [st EXCEPT !.msgs = Append(@, OpenAIMessage("system", message.content,
                                                                  <<>>, ""))]
                 [] message.role = "user" ->
                      [st EXCEPT !.msgs = Append(@, OpenAIMessage(
                                                       "user", OpenAIUserContent(message.parts),
                                                       <<>>, ""))]
                 [] message.role = "assistant" ->
                      OpenAIAssistantRest(OpenAIAssistantParts(st, message.parts))
                 [] OTHER -> st
         IN OpenAILoop(next, Tail(messages))

MessagesToOpenAI(messages) ==
    LET st == OpenAILoop([msgs |-> <<>>, content |-> <<>>, toolCalls |-> <<>>,
                          err |-> FALSE], messages)
    IN IF st.err THEN ConvError ELSE Converted(st.msgs, <<>>)

\* --- MessagesToGoogle
\* genai.Part: `kind` names the field that is set.
GooglePartText(text) == [kind |-> "text", text |-> text, name |-> "", value |-> <<>>]
GooglePartCall(name, args) ==
    [kind |-> "functionCall", text |-> <<>>, name |-> name, value |-> args]
GooglePartResponse(name, response) ==
    [kind |-> "functionResponse", text |-> <<>>, name |-> name, value |-> response]
GoogleContent(role, parts) == [role |-> role, parts |-> parts]

\* The map made of a ToolInvocation.Result: empty for nil, the decoded
\* object when the result encodes as one, else the result under "result".
GoogleResultMap(res) ==
    IF res = Nil THEN [ok |-> TRUE, map |-> "{}"]
    ELSE LET resultBytes == MarshalResult(res)
             decoded == Unmarshal(resultBytes.text)
         IN IF ~resultBytes.ok THEN [ok |-> FALSE, map |-> "nil"]
            ELSE IF decoded.ok THEN [ok |-> TRUE, map |-> decoded.obj]
            ELSE [ok |-> TRUE, map |-> "{result:" \o Deref(res) \o "}"]

\* The loop over the Parts of an assistant message.
RECURSIVE GoogleAssistantParts(_, _, _)
GoogleAssistantParts(st, parts, message) ==
    IF parts = <<>> \/ st.err THEN st
    ELSE LET part == Head(parts)
             failed == [st EXCEPT !.err = TRUE]
             next ==
               CASE part.type = PartTypeText ->
                      IF message.content = <<>> /\ part.text # <<>>
                      THEN [st EXCEPT !.assistantParts = Append(@, GooglePartText(part.text))]
                      ELSE st
                 [] part.type = PartTypeToolInvocation ->
                      IF part.inv = Nil THEN failed
                      ELSE LET ti == Deref(part.inv)
                               resultMap == GoogleResultMap(ti.result)
                           IN IF ti.state \in {ToolInvocationStateCall,
                                               ToolInvocationStatePartialCall}
                              THEN IF ti.args.isStr THEN failed
                                   ELSE [st EXCEPT !.functionCallParts =
                                           Append(@, GooglePartCall(ti.toolName, ti.args.obj))]
                              ELSE IF ti.state = ToolInvocationStateResult
                              THEN IF ~resultMap.ok THEN failed
                                   ELSE [st EXCEPT !.functionResponseParts =
                                           Append(@, GooglePartResponse(ti.toolName,
                                                                        resultMap.map))]
                              ELSE st
                 [] OTHER -> st
         IN GoogleAssistantParts(next, Tail(parts), message)

\* The loop over the Parts of a tool message.
RECURSIVE GoogleToolParts(_, _)
GoogleToolParts(st, parts) ==
    IF parts = <<>> \/ st.err THEN st
    ELSE LET part == Head(parts)
             isResult == /\ part.type = PartTypeToolInvocation
                         /\ part.inv # Nil
                         /\ Deref(part.inv).state = ToolInvocationStateResult
             resultMap == GoogleResultMap(Deref(part.inv).result)
             next == IF ~isResult THEN st
                     ELSE IF ~resultMap.ok THEN [st EXCEPT !.err = TRUE]
                     ELSE [st EXCEPT !.functionResponseParts =
                             Append(@, GooglePartResponse(Deref(part.inv).toolName,
                                                          resultMap.map))]
         IN GoogleToolParts(next, Tail(parts))

\* The end of the assistant case: the model content, then the function
\* responses.
GoogleAssistantAdd(st) ==
    IF st.err THEN st
    ELSE LET model == IF st.assistantParts # <<>> \/ st.functionCallParts # <<>>
                      THEN <<GoogleContent("model",
                                           st.assistantParts \o st.functionCallParts)>>
                      ELSE <<>>
             function == IF st.functionResponseParts # <<>>
                         THEN <<GoogleContent("function", st.functionResponseParts)>>
                         ELSE <<>>
         IN [st EXCEPT !.msgs = @ \o model \o function]

\* The end of the tool case.
GoogleToolAdd(st) ==
    IF st.err THEN st
    ELSE IF st.functionResponseParts # <<>>
    THEN [st EXCEPT !.msgs = Append(@, GoogleContent("function", st.functionResponseParts))]
    ELSE [st EXCEPT !.err = TRUE]

RECURSIVE GoogleLoop(_, _)
GoogleLoop(st0, messages) ==
    IF messages = <<>> \/ st0.err THEN st0
    ELSE LET message == Head(messages)
             st == [st0 EXCEPT !.assistantParts = <<>>, !.functionCallParts = <<>>,
                               !.functionResponseParts = <<>>]
             withContent == IF message.content # <<>>
                            THEN [st EXCEPT !.assistantParts =
                                    <<GooglePartText(message.content)>>]
                            ELSE st
             next ==
               CASE message.role = "user" ->
                      [st EXCEPT !.msgs = Append(@, GoogleContent(
                                                       "user",
                                                       <<GooglePartText(message.content)>>))]
                 [] message.role = "assistant" ->
                      GoogleAssistantAdd(GoogleAssistantParts(withContent, message.parts,
                                                              message))
                 [] message.role = "system" -> st
                 [] message.role = "tool" -> GoogleToolAdd(GoogleToolParts(st, message.parts))
                 [] OTHER -> [st EXCEPT !.err = TRUE]
         IN GoogleLoop(next, Tail(messages))

MessagesToGoogle(messages) ==
    LET st == GoogleLoop([msgs |-> <<>>, assistantParts |-> <<>>, functionCallParts |-> <<>>,
                          functionResponseParts |-> <<>>, err |-> FALSE], messages)
    IN IF st.err THEN ConvError ELSE Converted(st.msgs, <<>>)

\* --- AnthropicToMessages
\* The Message of the file AnthropicToMessages belongs to: content, role and
\* the list of ToolInvocations.
MessageOfInvocations(role, content, toolInvocations) ==
    [role |-> role, content |-> content, toolInvocations |-> toolInvocations]

\* json.Marshal of a ToolUseBlockParam.Input that is a json.RawMessage: the
\* text itself when it is JSON.
MarshalRawMessage(input) ==
    IF input \in {<<"{", "}">>, <<"{", "k", "}">>, <<"n">>}
    THEN [ok |-> TRUE, text |-> input]
    ELSE [ok |-> FALSE, text |-> <<>>]

\* The index of the first invocation with this id, 0 when there is none.
FirstInvocation(toolInvocations, toolUseID) ==
    LET hits == {i \in DOMAIN toolInvocations :
                   toolInvocations[i].toolCallId = toolUseID}
    IN IF hits = {} THEN 0 ELSE CHOOSE i \in hits : \A j \in hits : i <= j

\* The loop over the content blocks of one MessageParam.  `st` holds
\* messages, lastAssistantMessage (as the index of the message it points
\* to, 0 for nil), currentMessage.Content, toolInvocations and how the call
\* ended if it ended here.
RECURSIVE AnthropicBlocks(_, _)
AnthropicBlocks(st, blocks) ==
    IF blocks = <<>> \/ st.outcome # "ok" THEN st
    ELSE LET block == Head(blocks)
             inputBytes == MarshalRawMessage(block.input)
             argsMap == IF inputBytes.ok /\ Unmarshal(inputBytes.text).ok
                        THEN Unmarshal(inputBytes.text).obj ELSE "nil"
             i == FirstInvocation(st.messages[st.last].toolInvocations, block.id)
             next ==
               CASE block.kind = "text" -> [st EXCEPT !.content = @ \o block.text]
                 [] block.kind = "tool_use" ->
                      [st EXCEPT !.toolInvocations =
                         Append(@, ToolInvocation(ToolInvocationStateCall, block.id,
                                                  block.name, ObjArgs(argsMap)))]
                 [] block.kind = "tool_result" ->
                      IF st.last = 0 THEN [st EXCEPT !.outcome = "error"]
                      ELSE IF i = 0 THEN [st EXCEPT !.outcome = "error"]
                      ELSE IF block.content = <<>> \/ block.content[1].kind # "text"
                      THEN [st EXCEPT !.outcome = "panic"]
                      ELSE [st EXCEPT
                              !.messages[st.last].toolInvocations[i].result =
                                 Ptr(block.content[1].text),
                              !.messages[st.last].toolInvocations[i].state =
                                 ToolInvocationStateResult]
                 [] OTHER -> [st EXCEPT !.outcome = "error"]
         IN AnthropicBlocks(next, Tail(blocks))

\* Mutant of HasToolResultsOnly: no message is left out.
HasToolResultsOnly_Never(anthropicMsg) == FALSE

\* A user message whose content blocks are all tool results (none is one
\* too).
HasToolResultsOnly(anthropicMsg) ==
    /\ anthropicMsg.role = "user"
    /\ \A k \in DOMAIN anthropicMsg.content : anthropicMsg.content[k].kind = "tool_result"

RECURSIVE AnthropicMessagesLoop(_, _)
AnthropicMessagesLoop(st0, anthropicMessages) ==
    IF anthropicMessages = <<>> \/ st0.outcome # "ok" THEN st0
    ELSE LET anthropicMsg == Head(anthropicMessages)
             st == AnthropicBlocks([st0 EXCEPT !.content = <<>>, !.toolInvocations = <<>>],
                                   anthropicMsg.content)
             currentMessage == MessageOfInvocations(anthropicMsg.role, st.content,
                                                    st.toolInvocations)
             added == [st EXCEPT !.messages = Append(@, currentMessage)]
             next == IF st.outcome # "ok" THEN st
                     ELSE IF HasToolResultsOnly(anthropicMsg) THEN st
                     ELSE IF currentMessage.role = "assistant"
                     THEN [added EXCEPT !.last = Len(added.messages)]
                     ELSE [added EXCEPT !.last = 0]
         IN AnthropicMessagesLoop(next, Tail(anthropicMessages))

AnthropicToMessages(anthropicMessages) ==
    LET st == AnthropicMessagesLoop([messages |-> <<>>, last |-> 0, content |-> <<>>,
                                     toolInvocations |-> <<>>, outcome |-> "ok"],
                                    anthropicMessages)
    IN CASE st.outcome = "ok" -> Converted(st.messages, <<>>)
         [] st.outcome = "error" -> ConvError
         [] OTHER -> ConvPanic

\* ------------------------- converters on Content and ToolInvocations
\* The converters of the files in which a Message is its role, its Content
\* and its ToolInvocations (MessageOfInvocations above), the same files
\* AnthropicToMessages and OpenAIToMessages belong to.

\* --- MessagesToAnthropic on Content and ToolInvocations
\* The loop over message.ToolInvocations.  `st` holds
\* assistantContentBlocks, toolResultBlocks and whether an error was
\* returned.
RECURSIVE ContentToolBlocks(_, _)
ContentToolBlocks(st, toolInvocations) ==
    IF toolInvocations = <<>> \/ st.err THEN st
    ELSE LET ti == Head(toolInvocations)
             argsJSON == MarshalArgs(ti.args)
             resultJSON == MarshalResult(ti.result)
             used == [st EXCEPT !.assistant =
                        Append(@, ToolUseBlockParam(ti.toolCallId, ti.toolName, argsJSON.text))]
             failed == [st EXCEPT !.err = TRUE]
             next ==
               CASE ti.state \in {ToolInvocationStateCall, ToolInvocationStatePartialCall} ->
                      IF argsJSON.ok THEN used ELSE failed
                 [] ti.state = ToolInvocationStateResult ->
                      IF ~argsJSON.ok \/ ~resultJSON.ok THEN failed
                      ELSE [used EXCEPT !.results =
                              Append(@, ToolResultBlockParam(
                                          ti.toolCallId, <<TextBlockParam(resultJSON.text)>>))]
                 [] OTHER -> st
         IN ContentToolBlocks(next, Tail(toolInvocations))

RECURSIVE ContentAnthropicLoop(_, _)
ContentAnthropicLoop(st, messages) ==
    IF messages = <<>> \/ st.err THEN st
    ELSE LET message == Head(messages)
             blocks == ContentToolBlocks(
                         [assistant |-> IF message.content # <<>>
                                        THEN <<TextBlockParam(message.content)>> ELSE <<>>,
                          results |-> <<>>, err |-> FALSE],
                         message.toolInvocations)
             withAssistant ==
               IF blocks.assistant # <<>>
               THEN Append(st.msgs, MessageParam("assistant", blocks.assistant))
               ELSE st.msgs
             withResults ==
               IF blocks.results # <<>>
               THEN Append(withAssistant, MessageParam("user", blocks.results))
               ELSE withAssistant
             next ==
               CASE message.role = "user" ->
                      [st EXCEPT !.msgs = Append(@, MessageParam(
                                                      "user",
                                                      <<TextBlockParam(message.content)>>))]
                 [] message.role = "assistant" ->
                      IF blocks.err THEN [st EXCEPT !.err = TRUE]
                      ELSE [st EXCEPT !.msgs = withResults]
                 [] message.role = "system" ->
                      [st EXCEPT !.system = Append(@, message.content)]
                 [] OTHER -> [st EXCEPT !.err = TRUE]
         IN ContentAnthropicLoop(next, Tail(messages))

ContentMessagesToAnthropic(messages) ==
    LET st == ContentAnthropicLoop([msgs |-> <<>>, system |-> <<>>, err |-> FALSE], messages)
    IN IF st.err THEN ConvError ELSE Converted(st.msgs, st.system)

\* --- MessagesToOpenAI on Content and ToolInvocations
\* openai.ChatCompletionMessageParamUnion with the content union spelled
\* out: `ofString` is the OfString option (a pointer: Nil when absent),
\* `ofParts` the OfArrayOfContentParts.
OpenAIParam(role, ofString, ofParts, toolCalls, toolCallId) ==
    [role |-> role, ofString |-> ofString, ofParts |-> ofParts, toolCalls |-> toolCalls,
     toolCallId |-> toolCallId]

\* The first pass over message.ToolInvocations: the tool calls, or an error.
RECURSIVE ContentToolCalls(_)
ContentToolCalls(toolInvocations) ==
    IF toolInvocations = <<>> THEN [ok |-> TRUE, toolCalls |-> <<>>]
    ELSE LET ti == Head(toolInvocations)
             argsJSON == MarshalArgs(ti.args)
             rest == ContentToolCalls(Tail(toolInvocations))
         IN IF ~argsJSON.ok \/ ~rest.ok THEN [ok |-> FALSE, toolCalls |-> <<>>]
            ELSE [ok |-> TRUE,
                  toolCalls |-> <<OpenAIToolCallParam(ti.toolCallId, ti.toolName,
                                                      argsJSON.text)>> \o rest.toolCalls]

\* Mutant of ContentToolMessages: no tool message is made.
ContentToolMessages_None(toolInvocations) == [ok |-> TRUE, msgs |-> <<>>]

\* The second pass: a tool message for every invocation in result state.
RECURSIVE ContentToolMessages(_)
ContentToolMessages(toolInvocations) ==
    IF toolInvocations = <<>> THEN [ok |-> TRUE, msgs |-> <<>>]
    ELSE LET ti == Head(toolInvocations)
             resultJSON == MarshalResult(ti.result)
             rest == ContentToolMessages(Tail(toolInvocations))
         IN IF ti.state # ToolInvocationStateResult THEN rest
            ELSE IF ~resultJSON.ok \/ ~rest.ok THEN [ok |-> FALSE, msgs |-> <<>>]
            ELSE [ok |-> TRUE,
                  msgs |-> <<OpenAIParam("tool", Ptr(resultJSON.text), <<>>, <<>>,
                                         ti.toolCallId)>> \o rest.msgs]

RECURSIVE ContentOpenAILoop(_, _)
ContentOpenAILoop(st, messages) ==
    IF messages = <<>> \/ st.err THEN st
    ELSE LET message == Head(messages)
             calls1 == ContentToolCalls(message.toolInvocations)
             tools == ContentToolMessages(message.toolInvocations)
             assistantMsg ==
               OpenAIParam("assistant", Nil,
                           IF message.content # <<>>
                           THEN <<OpenAITextPart(message.content)>> ELSE <<>>,
                           calls1.toolCalls, "")
             next ==
               CASE message.role \in {"user", "system"} ->
                      [st EXCEPT !.msgs = Append(@, OpenAIParam(message.role,
                                                                Ptr(message.content),
                                                                <<>>, <<>>, ""))]
                 [] message.role = "assistant" ->
                      IF message.toolInvocations = <<>>
                      THEN [st EXCEPT !.msgs = Append(@, OpenAIParam("assistant",
                                                                     Ptr(message.content),
                                                                     <<>>, <<>>, ""))]
                      ELSE IF ~calls1.ok \/ ~tools.ok THEN [st EXCEPT !.err = TRUE]
                      ELSE [st EXCEPT !.msgs = Append(@, assistantMsg) \o tools.msgs]
                 [] OTHER -> [st EXCEPT !.err = TRUE]
         IN ContentOpenAILoop(next, Tail(messages))

ContentMessagesToOpenAI(messages) ==
    LET st == ContentOpenAILoop([msgs |-> <<>>, err |-> FALSE], messages)
    IN IF st.err THEN ConvError ELSE Converted(st.msgs, <<>>)

\* --- OpenAIToMessages
\* The text of a content union: the string when OfString is present, else
\* the texts of the text parts one after the other.
RECURSIVE OpenAIPartsText(_)
OpenAIPartsText(ofParts) ==
    IF ofParts = <<>> THEN <<>>
    ELSE (IF Head(ofParts).kind = "text" THEN Head(ofParts).text ELSE <<>>)
         \o OpenAIPartsText(Tail(ofParts))

OpenAIContentText(msgUnion) ==
    IF msgUnion.ofString # Nil THEN Deref(msgUnion.ofString)
    ELSE OpenAIPartsText(msgUnion.ofParts)

\* The ToolInvocations of an assistant message's ToolCalls.
RECURSIVE OpenAIInvocations(_)
OpenAIInvocations(toolCalls) ==
    IF toolCalls = <<>> THEN <<>>
    ELSE LET tc == Head(toolCalls)
             argsMap == IF Unmarshal(tc.arguments).ok
                        THEN Unmarshal(tc.arguments).obj ELSE "nil"
         IN <<ToolInvocation(ToolInvocationStateCall, tc.id, tc.name, ObjArgs(argsMap))>>
            \o OpenAIInvocations(Tail(toolCalls))

\* The loop over openaiMessages.  `st` holds messages, lastAssistantMessage
\* (as the index of the message it points to, 0 for nil) and whether an
\* error was returned.
RECURSIVE OpenAIMessagesLoop(_, _)
OpenAIMessagesLoop(st, openaiMessages) ==
    IF openaiMessages = <<>> \/ st.err THEN st
    ELSE LET msgUnion == Head(openaiMessages)
             i == FirstInvocation(st.messages[st.last].toolInvocations, msgUnion.toolCallId)
             toolResultContent ==
               IF msgUnion.ofString # Nil THEN Deref(msgUnion.ofString) ELSE <<>>
             newMessage ==
               MessageOfInvocations(
                 msgUnion.role,
                 IF msgUnion.role = "system"
                 THEN (IF msgUnion.ofString # Nil THEN Deref(msgUnion.ofString) ELSE <<>>)
                 ELSE OpenAIContentText(msgUnion),
                 IF msgUnion.role = "assistant"
                 THEN OpenAIInvocations(msgUnion.toolCalls) ELSE <<>>)
             added == [st EXCEPT !.messages = Append(@, newMessage)]
             next ==
               CASE msgUnion.role \in {"system", "user"} -> [added EXCEPT !.last = 0]
                 [] msgUnion.role = "assistant" -> [added EXCEPT !.last = Len(added.messages)]
                 [] msgUnion.role = "tool" ->
                      IF st.last = 0 THEN [st EXCEPT !.err = TRUE]
                      ELSE IF i = 0 THEN [st EXCEPT !.err = TRUE]
                      ELSE [st EXCEPT
                              !.messages[st.last].toolInvocations[i].result =
                                 Ptr(toolResultContent),
                              !.messages[st.last].toolInvocations[i].state =
                                 ToolInvocationStateResult]
                 [] OTHER -> [st EXCEPT !.err = TRUE]
         IN OpenAIMessagesLoop(next, Tail(openaiMessages))

OpenAIToMessages(openaiMessages) ==
    LET st == OpenAIMessagesLoop([messages |-> <<>>, last |-> 0, err |-> FALSE],
                                 openaiMessages)
    IN IF st.err THEN ConvError ELSE Converted(st.messages, <<>>)

\* ------------------------------------------------ the converters' callers
\* A message list is written as a word over its heads (a new message) and
\* its items (a part or block added to the last message): symbol s names
\* heads[s], or items[s - Len(heads)].
AddPart(message, part) == [message EXCEPT !.parts = Append(@, part)]
AddBlock(anthropicMsg, block) == [anthropicMsg EXCEPT !.content = Append(@, block)]
AddInvocation(message, ti) == [message EXCEPT !.toolInvocations = Append(@, ti)]
AddItem(kind, message, x) ==
    CASE kind = "canonical" -> AddPart(message, x)
      [] kind = "content" -> AddInvocation(message, x)
      [] OTHER -> AddBlock(message, x)

RECURSIVE ListOf(_, _, _, _, _)
ListOf(kind, heads, items, w, l) ==
    IF w = <<>> THEN l
    ELSE ListOf(kind, heads, items, Tail(w),
                IF Head(w) <= Len(heads) THEN Append(l, heads[Head(w)])
                ELSE [l EXCEPT ![Len(l)] =
                        AddItem(kind, @, items[Head(w) - Len(heads)])])

\* The words of at most MaxSize symbols that start with a message.
IsWord(w, heads, items) ==
    /\ Len(w) <= MaxSize
    /\ \A i \in DOMAIN w : w[i] \in 1..(Len(heads) + Len(items))
    /\ w # <<>> => w[1] <= Len(heads)

\* Canonical messages: every role the converters tell apart and one they do
\* not know; text Parts, invocations in call and in result state, a Part
\* without its ToolInvocation, and args and a result that JSON cannot
\* represent.
CanonicalHeads ==
    <<CMessage("system", <<"a">>), CMessage("user", <<"a">>), CMessage("assistant", <<>>),
      CMessage("tool", <<>>), CMessage("invalid-role", <<"a">>)>>
CanonicalParts ==
    <<TextPart(<<"a">>), TextPart(<<>>), InvPart(Nil),
      InvPart(CallInv("t1", ObjArgs("{}"))), InvPart(CallInv("t2", ObjArgs("{}"))),
      InvPart(CallInv("t1", ObjArgs("bad"))),
      InvPart(ResultInv("t1", ObjArgs("{}"), Ptr("r1"))),
      InvPart(ResultInv("t1", ObjArgs("{}"), Ptr("bad")))>>
CanonicalInput(w) ==
    [kind |-> "canonical",
     messages |-> ListOf("canonical", CanonicalHeads, CanonicalParts, w, <<>>)]

\* Anthropic messages: both roles; text, tool_use and tool_result blocks
\* (one without content), and a block with no field set.
AnthropicHeads == <<MessageParam("user", <<>>), MessageParam("assistant", <<>>)>>
AnthropicBlockParams ==
    <<TextBlockParam(<<"a">>), NilBlockParam,
      ToolUseBlockParam("t1", "f", <<"{", "}">>), ToolUseBlockParam("t2", "f", <<"{", "}">>),
      ToolResultBlockParam("t1", <<TextBlockParam(<<"r1">>)>>),
      ToolResultBlockParam("t2", <<TextBlockParam(<<"r1">>)>>),
      ToolResultBlockParam("t1", <<>>)>>
AnthropicInput(w) ==
    [kind |-> "anthropic",
     messages |-> ListOf("anthropic", AnthropicHeads, AnthropicBlockParams, w, <<>>)]

\* A caller converts its list once.
Call(fn, result) == Ptr([fn |-> fn, result |-> result])

CallMessagesToAnthropic ==
    /\ cin.kind = "canonical"
    /\ conv = Nil
    /\ conv' = Call("MessagesToAnthropic", MessagesToAnthropic(cin.messages))
    /\ UNCHANGED <<acc, accHist, chainVars, cin>>

CallMessagesToOpenAI ==
    /\ cin.kind = "canonical"
    /\ conv = Nil
    /\ conv' = Call("MessagesToOpenAI", MessagesToOpenAI(cin.messages))
    /\ UNCHANGED <<acc, accHist, chainVars, cin>>

CallMessagesToGoogle ==
    /\ cin.kind = "canonical"
    /\ conv = Nil
    /\ conv' = Call("MessagesToGoogle", MessagesToGoogle(cin.messages))
    /\ UNCHANGED <<acc, accHist, chainVars, cin>>

CallAnthropicToMessages ==
    /\ cin.kind = "anthropic"
    /\ conv = Nil
    /\ conv' = Call("AnthropicToMessages", AnthropicToMessages(cin.messages))
    /\ UNCHANGED <<acc, accHist, chainVars, cin>>

NextConv ==
    \/ CallMessagesToAnthropic
    \/ CallMessagesToOpenAI
    \/ CallMessagesToGoogle
    \/ CallAnthropicToMessages

InitConv ==
    /\ acc = DataStreamAccumulator
    /\ InitAccHist
    /\ InitChain(FALSE)
    /\ InitRaw
    /\ \E k \in 0..MaxSize :
         \/ \E w \in [1..k -> 1..(Len(CanonicalHeads) + Len(CanonicalParts))] :
               /\ IsWord(w, CanonicalHeads, CanonicalParts)
               /\ cin = CanonicalInput(w)
         \/ \E w \in [1..k -> 1..(Len(AnthropicHeads) + Len(AnthropicBlockParams))] :
               /\ IsWord(w, AnthropicHeads, AnthropicBlockParams)
               /\ cin = AnthropicInput(w)
    /\ conv = Nil

SpecConv == InitConv /\ [][NextConv]_vars

\* ------------------------------------------------------------ round trips
\* Messages of Content and ToolInvocations: user and assistant messages with
\* and without text; invocations in call and in result state, with object
\* args and a result.  Only an assistant message holds invocations.
ContentHeads ==
    <<MessageOfInvocations("user", <<"a">>, <<>>), MessageOfInvocations("user", <<>>, <<>>),
      MessageOfInvocations("assistant", <<"a">>, <<>>),
      MessageOfInvocations("assistant", <<>>, <<>>)>>
ContentInvocations ==
    <<ToolInvocation(ToolInvocationStateCall, "t1", "f", ObjArgs("{}")),
      ToolInvocation(ToolInvocationStateCall, "t2", "g", ObjArgs("{k}")),
      [ToolInvocation(ToolInvocationStateResult, "t1", "f", ObjArgs("{}"))
         EXCEPT !.result = Ptr("r1")],
      [ToolInvocation(ToolInvocationStateResult, "t2", "g", ObjArgs("{k}"))
         EXCEPT !.result = Ptr("r1")]>>
ContentInput(w) ==
    [kind |-> "content",
     messages |-> ListOf("content", ContentHeads, ContentInvocations, w, <<>>)]

\* A caller converts its list to a provider's messages and, when that
\* succeeded, converts the provider's messages back.
CallContentMessagesToAnthropic ==
    /\ cin.kind = "content"
    /\ conv = Nil
    /\ conv' = Call("ContentMessagesToAnthropic", ContentMessagesToAnthropic(cin.messages))
    /\ UNCHANGED <<acc, accHist, chainVars, cin>>

CallAnthropicToMessagesBack ==
    /\ conv # Nil
    /\ Deref(conv).fn = "ContentMessagesToAnthropic"
    /\ Deref(conv).result.outcome = "ok"
    /\ conv' = Call("AnthropicToMessagesBack", AnthropicToMessages(Deref(conv).result.messages))
    /\ UNCHANGED <<acc, accHist, chainVars, cin>>

CallContentMessagesToOpenAI ==
    /\ cin.kind = "content"
    /\ conv = Nil
    /\ conv' = Call("ContentMessagesToOpenAI", ContentMessagesToOpenAI(cin.messages))
    /\ UNCHANGED <<acc, accHist, chainVars, cin>>

CallOpenAIToMessagesBack ==
    /\ conv # Nil
    /\ Deref(conv).fn = "ContentMessagesToOpenAI"
    /\ Deref(conv).result.outcome = "ok"
    /\ conv' = Call("OpenAIToMessagesBack", OpenAIToMessages(Deref(conv).result.messages))
    /\ UNCHANGED <<acc, accHist, chainVars, cin>>

NextTrip ==
    \/ CallContentMessagesToAnthropic
    \/ CallAnthropicToMessagesBack
    \/ CallContentMessagesToOpenAI
    \/ CallOpenAIToMessagesBack

InitTrip ==
    /\ acc = DataStreamAccumulator
    /\ InitAccHist
    /\ InitChain(FALSE)
    /\ InitRaw
    /\ \E k \in 0..MaxSize :
         \E w \in [1..k -> 1..(Len(ContentHeads) + Len(ContentInvocations))] :
            /\ IsWord(w, ContentHeads, ContentInvocations)
            /\ \A i \in DOMAIN w :
                  (i > 1 /\ w[i] > Len(ContentHeads)) =>
                     \E j \in 1..(i - 1) :
                        /\ w[j] <= Len(ContentHeads)
                        /\ ContentHeads[w[j]].role = "assistant"
                        /\ \A n \in (j + 1)..(i - 1) : w[n] > Len(ContentHeads)
            /\ cin = ContentInput(w)
    /\ conv = Nil

SpecTrip == InitTrip /\ [][NextTrip]_vars

\* ------------------------------------------------- accumulator properties
RECURSIVE TextOf(_)
\* The concatenation, in order, of the texts of the text-typed parts.
TextOf(parts) ==
    IF parts = <<>> THEN <<>>
    ELSE (IF Head(parts).type = PartTypeText THEN Head(parts).text ELSE <<>>)
         \o TextOf(Tail(parts))

RECURSIVE ToolIdsOf(_)
\* The toolCallIds of the tool-invocation parts, in part order.
ToolIdsOf(parts) ==
    IF parts = <<>> THEN <<>>
    ELSE (IF Head(parts).type = PartTypeToolInvocation
          THEN <<Deref(Head(parts).inv).toolCallId>> ELSE <<>>)
         \o ToolIdsOf(Tail(parts))

TypesOf(parts) == [i \in DOMAIN parts |-> parts[i].type]
IsPrefix(s, t) == Len(s) <= Len(t) /\ SubSeq(t, 1, Len(s)) = s

StateRank(state) ==
    CASE state = ToolInvocationStatePartialCall -> 1
      [] state = ToolInvocationStateCall -> 2
      [] state = ToolInvocationStateResult -> 3

\* C1: the content of the in-progress message and of every message of
\* Messages() is the concatenation, in order, of the texts of its text parts.
C1_ContentIsTextOfParts ==
    \A k \in DOMAIN AllMessages(acc) :
        AllMessages(acc)[k].content = TextOf(AllMessages(acc)[k].parts)

\* A flushed message with two text parts around another part, and the content
\* of both.
C1_Witness ==
    \E k \in DOMAIN Messages(acc) :
        LET m == Messages(acc)[k]
        IN /\ Len(m.parts) = 3
           /\ m.parts[1].type = PartTypeText
           /\ m.parts[3].type = PartTypeText
           /\ m.content = <<"a", "b">>

\* C2: no push moves a tool invocation backwards along
\* partial-call, call, result.
C2_StateMonotone ==
    [][\A k \in DOMAIN AllMessages(acc) :
         \A i \in DOMAIN AllMessages(acc)[k].parts :
            LET old == AllMessages(acc)[k].parts[i]
                new == AllMessages(acc')[k].parts[i]
            IN old.type = PartTypeToolInvocation =>
                 StateRank(Deref(new.inv).state) >= StateRank(Deref(old.inv).state)]_vars

FlushingPart(p) == p.tag = "d" \/ (p.tag = "e" /\ ~p.isContinued)
Serials(msgs) == {msgs[k].serial : k \in DOMAIN msgs}

\* C8: Messages() grows only on a finish-message push or a non-continued
\* finish-step push, by exactly the message that was in progress, which is
\* then no longer in progress and was never appended before; every other
\* push keeps the in-progress message in progress; a finish-message right
\* after a non-continued finish-step appends nothing, and a continued
\* finish-step appends nothing and keeps the same message in progress.
C8_FlushOnFinishOnly ==
    [][LET p == Deref(lastPush').part
           cur == ensureCurrentMessage(acc).currentMessage
       IN /\ Messages(acc') # Messages(acc) =>
               /\ FlushingPart(p)
               /\ Len(Messages(acc')) = Len(Messages(acc)) + 1
               /\ IsPrefix(Messages(acc), Messages(acc'))
               /\ acc.currentMessage # Nil \/ p.tag = "e"
               /\ Messages(acc')[Len(Messages(acc'))].serial = Deref(cur).serial
               /\ Deref(cur).serial \notin Serials(Messages(acc))
               /\ acc'.currentMessage = Nil
          /\ (acc.currentMessage # Nil /\ Messages(acc') = Messages(acc)) =>
               /\ acc'.currentMessage # Nil
               /\ Deref(acc'.currentMessage).serial = Deref(acc.currentMessage).serial
               /\ ~FlushingPart(p)
          /\ (p.tag = "d" /\ lastPush # Nil /\ Deref(lastPush).part.tag = "e"
                /\ ~Deref(lastPush).part.isContinued) =>
               Messages(acc') = Messages(acc)
          /\ (p.tag = "e" /\ p.isContinued) =>
               /\ Messages(acc') = Messages(acc)
               /\ acc'.currentMessage # Nil]_vars

\* A text pushed after a continued finish-step: nothing was appended and
\* the text went into the message that was in progress before the
\* finish-step.
C8_Witness ==
    /\ lastPush # Nil
    /\ Deref(lastPush).part.tag = "0"
    /\ acc.finishReason = FinishReasonStop
    /\ Messages(acc) = <<>>
    /\ acc.currentMessage # Nil
    /\ Deref(acc.currentMessage).serial = 1
    /\ TypesOf(Deref(acc.currentMessage).parts) = <<PartTypeStepStart, PartTypeText>>

\* C9: in every message the tool-invocation parts are, in order, exactly the
\* invocations opened for that message, in the order their ids were first
\* announced (by a tool-call-start, or by a tool-call for an id the message
\* did not hold yet); and no push removes, retypes or moves a part that is
\* already in a message.
C9_OrderInv ==
    \A k \in DOMAIN AllMessages(acc) :
        LET m == AllMessages(acc)[k]
        IN ToolIdsOf(m.parts) =
             (IF m.serial \in DOMAIN announced THEN announced[m.serial] ELSE <<>>)

C9_KeepParts ==
    /\ IsPrefix(Messages(acc), Messages(acc'))
    /\ acc.currentMessage # Nil =>
         LET old == Deref(acc.currentMessage)
             k == Len(Messages(acc)) + 1
         IN /\ k \in DOMAIN AllMessages(acc')
            /\ LET new == AllMessages(acc')[k]
               IN /\ new.serial = old.serial
                  /\ IsPrefix(TypesOf(old.parts), TypesOf(new.parts))
                  /\ IsPrefix(ToolIdsOf(old.parts), ToolIdsOf(new.parts))

RECURSIVE Forwarded(_)
Forwarded(items) ==
    IF items = <<>> THEN <<>>
    ELSE (IF Head(items).synth THEN <<>>
          ELSE IF Head(items).err THEN <<UpError>>
          ELSE <<Deref(Head(items).part)>>)
         \o Forwarded(Tail(items))

CallsFor(id) == {i \in DOMAIN calls : calls[i].call.id = id}

\* The consumer took out[i]: its yield returned true.
Accepted(i) == i < Len(out) \/ ~halted

\* out[i] is a forwarded tool-call-delta that the consumer took and that made
\* the text accumulated for its id a JSON object.
CompletesArgs(i) ==
    /\ ~out[i].err
    /\ ~out[i].synth
    /\ Deref(out[i].part).tag = "c"
    /\ Accepted(i)
    /\ Unmarshal(Deref(out[i].buf).text).ok
    /\ Unmarshal(Deref(out[i].buf).text).obj # "nil"

\* C4: the handler is invoked at most once for a toolCallId.
C4_HandlerOncePerId == \A id \in ToolCallIDs : Cardinality(CallsFor(id)) <= 1

\* C5: a forwarded delta that completes the args of its id is followed at
\* once, for as long as the consumer keeps taking parts, by a tool-call part
\* with the declared name and the decoded args and then by a tool-result part
\* for the same id with the handler's return value; the handler is called
\* once between the two, with that id, name and args; and when the result has
\* been taken the buffer of the id is gone.
C5_CallAndResultFollow ==
    \A i \in DOMAIN out :
        CompletesArgs(i) =>
          LET id == Deref(out[i].part).toolCallId
              buf == Deref(out[i].buf)
              tc == [id |-> id, name |-> buf.toolName, args |-> Unmarshal(buf.text).obj]
              between == {k \in DOMAIN calls : calls[k].at = i + 1}
          IN /\ Len(out) = i => mpc = "toolcall"
             /\ Len(out) > i =>
                  /\ out[i + 1] = PartItem(ToolCallStreamPart(id, tc.name, tc.args), TRUE, Nil)
                  /\ {k \in DOMAIN calls : calls[k].at = i} = {}
             /\ (Len(out) = i + 1 /\ Accepted(i + 1)) =>
                  /\ mpc \in {"handler", "toolresult"}
                  /\ mpc = "toolresult" => Cardinality(between) = 1
             /\ Len(out) > i + 1 =>
                  /\ Cardinality(between) = 1
                  /\ \A k \in between :
                       /\ calls[k].call = tc
                       /\ out[i + 2] =
                            PartItem(ToolResultStreamPart(id, calls[k].result), TRUE, Nil)
             /\ (Len(out) = i + 2 /\ Accepted(i + 2)) =>
                  /\ mpc \in {"idle", "done"}
                  /\ id \notin DOMAIN partialToolCalls

\* Two deltas complete the args of an announced call; tool-call and
\* tool-result followed and the stream went on.
C5_Witness ==
    /\ Len(out) = 5
    /\ Len(up) = 3
    /\ Deref(out[1].part).tag = "b"
    /\ Deref(out[2].part).tag = "c"
    /\ CompletesArgs(3)
    /\ out[5].synth
    /\ Deref(out[5].part).tag = "a"
    /\ mpc = "idle"

\* C6: the downstream sequence without the parts WithToolCalling made itself
\* is the upstream sequence: every upstream part (or error) is forwarded
\* once, unchanged and in order, as soon as it arrives.
C6_ForwardsUpstream == Forwarded(out) = up

\* Three upstream parts were forwarded around a tool-call and a tool-result
\* of the middleware's own.
C6_Witness ==
    /\ Len(up) = 3
    /\ Len(out) = 5
    /\ out[3].synth
    /\ out[4].synth
    /\ ~out[5].synth
    /\ ~out[5].err
    /\ mpc = "idle"

\* -------------------------------- WithToolCalling(h).WithAccumulator(acc)
\* The stream was drained and no error came out of it.
DrainedWithoutError ==
    /\ upc = "done"
    /\ mpc = "done"
    /\ \A i \in DOMAIN out : ~out[i].err

\* Where Messages() holds a tool-invocation part for the id.
InvocationsOf(id) ==
    UNION {{<<k, i>> : i \in {j \in DOMAIN Messages(acc)[k].parts :
                                  IsInvocationOf(Messages(acc)[k].parts[j], id)}} :
           k \in DOMAIN Messages(acc)}

\* out[i] completes the args of a call that a tool-call-start announced, and
\* a finish-step follows it.
CompletesAnnouncedCall(i) ==
    /\ CompletesArgs(i)
    /\ Deref(out[i].buf).toolName # ""
    /\ \E j \in DOMAIN out : j > i /\ ~out[j].err /\ Deref(out[j].part).tag = "e"

\* Messages() holds exactly one invocation for the id of out[i]: in state
\* result, with the args decoded from the buffer and a result the handler
\* returned for that id.
OneResultInvocation(i) ==
    LET id == Deref(out[i].part).toolCallId
        buf == Deref(out[i].buf)
    IN /\ Cardinality(InvocationsOf(id)) = 1
       /\ \A w \in InvocationsOf(id) :
            LET inv == Deref(Messages(acc)[w[1]].parts[w[2]].inv)
            IN /\ inv.state = ToolInvocationStateResult
               /\ inv.args = ObjArgs(Unmarshal(buf.text).obj)
               /\ \E k \in CallsFor(id) : inv.result = Ptr(calls[k].result)

IdOf(p) == IF p.tag \in {"b", "c", "9", "a"} THEN p.toolCallId ELSE ""

\* The upstream carries the id in one tool-call-start and otherwise only in
\* tool-call-delta parts, no finish-message comes between that start and
\* out[i], the handler ran once for the id, and after out[i] the upstream
\* ends the message: a finish-message, or a finish-step that is not continued.
WellFormedCall(i) ==
    LET id == Deref(out[i].part).toolCallId
        starts == {j \in DOMAIN out : /\ ~out[j].err
                                      /\ Deref(out[j].part).tag = "b"
                                      /\ Deref(out[j].part).toolCallId = id}
    IN /\ Cardinality({j \in DOMAIN up : up[j].tag = "b" /\ IdOf(up[j]) = id}) = 1
       /\ \A j \in DOMAIN up : up[j].tag \in {"9", "a"} => IdOf(up[j]) # id
       /\ \A s \in starts : \A j \in DOMAIN out :
            (s < j /\ j < i /\ ~out[j].err) => Deref(out[j].part).tag # "d"
       /\ Cardinality(CallsFor(id)) = 1
       /\ \E j \in DOMAIN out :
            /\ j > i
            /\ ~out[j].err
            /\ FlushingPart(Deref(out[j].part))

C3_ResultAfterCall ==
    \A i \in DOMAIN out :
        (~out[i].err /\ Deref(out[i].part).tag = "a") =>
            \E j \in 1..(i - 1) :
                /\ ~out[j].err
                /\ Deref(out[j].part).tag \in {"b", "9"}
                /\ Deref(out[j].part).toolCallId = Deref(out[i].part).toolCallId

\* An adapter's stream in which a tool-result went out, after the
\* tool-call-start the adapter made and the tool-call WithToolCalling made.
C3_Witness ==
    /\ src \in Adapters
    /\ \E i \in DOMAIN out :
         /\ ~out[i].err
         /\ Deref(out[i].part).tag = "a"
         /\ \E j, k \in 1..(i - 1) :
              /\ ~out[j].err /\ ~out[k].err
              /\ Deref(out[j].part).tag = "b"
              /\ Deref(out[k].part).tag = "9"
              /\ Deref(out[j].part).toolCallId = Deref(out[i].part).toolCallId
              /\ Deref(out[k].part).toolCallId = Deref(out[i].part).toolCallId

\* C10: once a yield call of an adapter has returned false, the adapter
\* makes no further yield call and asks its vendor stream for nothing more.
C10_StopAfterFalse == [][yieldFalse => (up' = up /\ pulls' = pulls)]_vars

\* A yield of an adapter returned false in the middle of an event, with
\* yields of that event still to make and the vendor stream not at its end:
\* the adapter has returned.
C10_Witness ==
    /\ src \in Adapters
    /\ yieldFalse
    /\ upc = "done"
    /\ pend # <<>>
    /\ pulls < MaxEvents

\* The adapter has returned after making every yield it had to make, and
\* the consumer accepted them all.
AdapterRanToEnd ==
    /\ src \in Adapters
    /\ upc = "done"
    /\ pend = <<>>
    /\ ~halted

Last(seq) == seq[Len(seq)]

\* C11: when the vendor stream fails after it has delivered events, the
\* adapter yields the failure and ends its output with a finish-message
\* whose finishReason is error.
C11_FailureEndsWithFinishError ==
    (AdapterRanToEnd /\ ad.err /\ evs # <<>>) =>
        /\ \E i \in DOMAIN up : up[i].tag \in {"!", "3"}
        /\ Last(up).tag = "d"
        /\ Last(up).finishReason = FinishReasonError

\* C12: when the Anthropic stream ends with an error, or with a last event
\* other than message_stop, the last part AnthropicToDataStream yields is a
\* finish-message, with reason error unless finalReason was set.
C12_AnthropicTerminalFinish ==
    (/\ AdapterRanToEnd
     /\ src = "anthropic"
     /\ (ad.err \/ ad.lastChunk = Nil \/ Deref(ad.lastChunk) # "message_stop")) =>
        /\ up # <<>>
        /\ Last(up).tag = "d"
        /\ Last(up).finishReason = IF ad.finalReason = FinishReasonUnknown
                                   THEN FinishReasonError ELSE ad.finalReason

RECURSIVE FunctionCallsOf(_)
\* The FunctionCalls of the parts the loop of GoogleToDataStream reaches, in
\* order, over a sequence of responses.
FunctionCallsOf(resps) ==
    IF resps = <<>> THEN <<>>
    ELSE LET resp == Head(resps)
             parts == IF resp = Nil \/ Deref(resp).candidates = <<>>
                         \/ Deref(resp).candidates[1].content = Nil
                      THEN <<>>
                      ELSE Deref(Deref(resp).candidates[1].content)
             fcs == SelectSeq(parts, LAMBDA part : part.functionCall # Nil)
         IN [k \in DOMAIN fcs |-> Deref(fcs[k].functionCall)] \o FunctionCallsOf(Tail(resps))

\* Where the adapter has yielded a tool-call-start.
StartsIn(parts) == {i \in DOMAIN parts : parts[i].tag = "b"}

\* GoogleToDataStream has made every yield of the responses it has pulled,
\* and none has returned false.
GoogleUpToDate ==
    /\ src = "google"
    /\ upc = "run"
    /\ pend = <<>>
    /\ ~yieldFalse

\* The i-th yield is the tool-call-start of the k-th FunctionCall: it has
\* its name and an id no other tool-call-start has.
StartOfCall(i, fc) ==
    /\ up[i].toolName = fc.name
    /\ \A j \in StartsIn(up) \ {i} : up[j].toolCallId # up[i].toolCallId

\* The yield after the i-th is a tool-call-delta with the same id and the
\* JSON text of the args.
DeltaOfCall(i, fc) ==
    /\ i < Len(up)
    /\ up[i + 1].tag = "c"
    /\ up[i + 1].toolCallId = up[i].toolCallId
    /\ Marshal(fc.args).ok
    /\ up[i + 1].argsTextDelta = Marshal(fc.args).text

\* C13 as stated: the tool-call-starts yielded are those of the
\* FunctionCalls received, in order, each with a fresh id and followed by a
\* tool-call-delta with the same id and the JSON encoding of the args.
C13_StartThenDelta ==
    GoogleUpToDate =>
        LET fcs == FunctionCallsOf(evs)
            starts == StartsIn(up)
        IN /\ Cardinality(starts) = Len(fcs)
           /\ \A i \in starts :
                LET fc == fcs[Cardinality({j \in starts : j <= i})]
                IN StartOfCall(i, fc) /\ DeltaOfCall(i, fc)

\* C13, amended: the same, the tool-call-delta being due only for args that
\* can be encoded as JSON.
C13_StartThenDeltaIfEncodable ==
    GoogleUpToDate =>
        LET fcs == FunctionCallsOf(evs)
            starts == StartsIn(up)
        IN /\ Cardinality(starts) = Len(fcs)
           /\ \A i \in starts :
                LET fc == fcs[Cardinality({j \in starts : j <= i})]
                IN /\ StartOfCall(i, fc)
                   /\ Marshal(fc.args).ok => DeltaOfCall(i, fc)

\* Two responses with three FunctionCalls between them, one of them with
\* args JSON cannot encode: three tool-call-starts went out.
C13_Witness ==
    /\ GoogleUpToDate
    /\ Len(FunctionCallsOf(evs)) = 3
    /\ Cardinality(StartsIn(up)) = 3
    /\ \E k \in 1..3 : ~Marshal(FunctionCallsOf(evs)[k].args).ok

\* The mapping of Google finish reasons that C14 states.
C14_Mapping(finishReason) ==
    CASE finishReason = "STOP" -> "stop"
      [] finishReason = "MAX_TOKENS" -> "length"
      [] finishReason \in {"SAFETY", "RECITATION"} -> "content-filter"
      [] finishReason = "FINISH_REASON_UNSPECIFIED" -> "unknown"
      [] OTHER -> "other"

\* C14: at the end of a Google stream, the finish-step and the
\* finish-message carry tool-calls if any response had a FunctionCall, and
\* otherwise the mapping of the last candidate's finish reason.
C14_ToolCallsWin ==
    (AdapterRanToEnd /\ src = "google" /\ ~ad.err) =>
        LET fstep == up[Len(up) - 1]
            message == Last(up)
            seen == FunctionCallsOf(evs) # <<>>
            hasCand == ad.lastResp # Nil /\ Deref(ad.lastResp).candidates # <<>>
        IN /\ Len(up) >= 2
           /\ fstep.tag = "e"
           /\ message.tag = "d"
           /\ seen => /\ fstep.finishReason = "tool-calls"
                      /\ message.finishReason = "tool-calls"
           /\ (~seen /\ hasCand) =>
                LET r == C14_Mapping(Deref(ad.lastResp).candidates[1].finishReason)
                IN fstep.finishReason = r /\ message.finishReason = r

\* The adapter has made every yield of the events it has pulled, and none
\* has returned false.
AdapterUpToDate ==
    /\ src \in Adapters
    /\ pend = <<>>
    /\ ~yieldFalse

\* C15: OpenAIToDataStream yields a step-start once it has seen a chunk,
\* and before any text, tool-call-start or tool-call-delta.
C15_OpenAIStepStartFirst ==
    src = "openai" =>
        /\ (AdapterUpToDate /\ evs # <<>>) => \E j \in DOMAIN up : up[j].tag = "f"
        /\ \A i \in DOMAIN up :
             up[i].tag \in {"0", "b", "c"} => \E j \in 1..(i - 1) : up[j].tag = "f"

\* The mapping of OpenAI finish reasons that C16 states.
C16_Mapping(finishReason) ==
    CASE finishReason = "tool_calls" -> "tool-calls"
      [] finishReason = "length" -> "length"
      [] finishReason = "content_filter" -> "content-filter"
      [] OTHER -> "stop"

\* C16: once OpenAIToDataStream has handled a chunk with a finish reason,
\* the last part it has yielded is a finish-step, or at the end of the
\* stream the finish-message, with the mapped reason.
C16_OpenAIFinishReasons ==
    (/\ AdapterUpToDate
     /\ src = "openai"
     /\ evs # <<>>
     /\ Last(evs).choices # <<>>
     /\ Last(evs).choices[1].finishReason # "") =>
        /\ up # <<>>
        /\ Last(up).tag = IF upc = "run" THEN "e" ELSE "d"
        /\ Last(up).finishReason = C16_Mapping(Last(evs).choices[1].finishReason)

\* The stop reason of the last message_delta among the events.
LastStopReason(events) ==
    LET ds == SelectSeq(events, LAMBDA e : e.type = "message_delta")
    IN IF ds = <<>> THEN Nil ELSE Ptr(Last(ds).stopReason)

\* The mapping of Anthropic stop reasons that C17 states.
C17_Mapping(stopReason) ==
    CASE stopReason \in {"end_turn", "stop_sequence"} -> "stop"
      [] stopReason = "max_tokens" -> "length"
      [] stopReason = "tool_use" -> "tool-calls"
      [] OTHER -> "other"

\* C17: the finish-step and finish-message AnthropicToDataStream yields for
\* message_stop carry the mapping of the stop reason the vendor sent.
C17_AnthropicFinishReasons ==
    (/\ AdapterUpToDate
     /\ src = "anthropic"
     /\ evs # <<>>
     /\ Last(evs).type = "message_stop"
     /\ LastStopReason(evs) # Nil) =>
        LET r == C17_Mapping(Deref(LastStopReason(evs)))
        IN /\ Len(up) >= 2
           /\ up[Len(up) - 1].tag = "e"
           /\ up[Len(up) - 1].finishReason = r
           /\ Last(up).tag = "d"
           /\ Last(up).finishReason = r

\* C18: every finish-step and finish-message an adapter yields carries a
\* finishReason of the closed set.
C18_FinishReasonInSet ==
    src \in Adapters =>
        \A i \in DOMAIN up :
            up[i].tag \in {"e", "d"} => up[i].finishReason \in FinishReasons

\* C19: no adapter yields a tool-call-start or tool-call-delta with an
\* empty toolCallId.
C19_NoEmptyToolCallId ==
    src \in Adapters =>
        \A i \in DOMAIN up :
            up[i].tag \in {"b", "c"} => up[i].toolCallId # ""

\* C20: a Push of a tool-call-delta whose id has no invocation in the
\* in-progress message (or that finds no message in progress) fails.
C20_UnknownDeltaFails ==
    [][(/\ nPush' = nPush + 1
        /\ Deref(lastPush').part.tag = "c"
        /\ \/ acc.currentMessage = Nil
           \/ findPart(acc, Deref(lastPush').part.toolCallId) = 0)
       => Deref(lastPush').err]_vars

\* ----------------------------------------- accumulator: failures and ids
\* The tool-invocation parts of the in-progress message that hold this id
\* with args that are no longer a string.
DecodedParts(a, id) ==
    IF a.currentMessage = Nil THEN {}
    ELSE {i \in DOMAIN CurParts(a) :
            /\ IsInvocationOf(CurParts(a)[i], id)
            /\ ~Deref(CurParts(a)[i].inv).args.isStr}

\* C21: a Push of a tool-call-delta for an id whose args are already decoded
\* in the in-progress message fails, and leaves the decoded args as they
\* were.
C21_DeltaAfterDecodeFails ==
    [][(/\ nPush' = nPush + 1
        /\ Deref(lastPush').part.tag = "c"
        /\ DecodedParts(acc, Deref(lastPush').part.toolCallId) # {})
       => /\ Deref(lastPush').err
          /\ \A i \in DecodedParts(acc, Deref(lastPush').part.toolCallId) :
                CurParts(acc')[i].inv = CurParts(acc)[i].inv]_vars

\* C22: a Push of a tool-result whose id matches no tool-invocation part of
\* the in-progress message fails; Messages() is what it was and so is every
\* part of the in-progress message (a message opened by this very Push has
\* no parts).
C22_UnknownResultFails ==
    [][(/\ nPush' = nPush + 1
        /\ Deref(lastPush').part.tag = "a"
        /\ findPart(acc, Deref(lastPush').part.toolCallId) = 0)
       => /\ Deref(lastPush').err
          /\ Messages(acc') = Messages(acc)
          /\ acc'.currentMessage # Nil
          /\ CurParts(acc') = (IF acc.currentMessage = Nil THEN <<>> ELSE CurParts(acc))]_vars

\* A tool-result for t2 was refused while the message in progress holds the
\* invocation of t1 in state call.
C22_Witness ==
    /\ lastPush # Nil
    /\ Deref(lastPush).part.tag = "a"
    /\ Deref(lastPush).part.toolCallId = "t2"
    /\ Deref(lastPush).err
    /\ acc.currentMessage # Nil
    /\ TypesOf(CurParts(acc)) = <<PartTypeToolInvocation>>
    /\ Deref(CurParts(acc)[1].inv).toolCallId = "t1"
    /\ Deref(CurParts(acc)[1].inv).state = ToolInvocationStateCall

\* C23: a step-start pushed for a message without an id gives it the
\* messageId it carries; once a message in progress has an id, no push
\* changes it for as long as that message stays in progress.
C23_IdAdoptedOnce ==
    [][nPush' = nPush + 1 =>
         LET p == Deref(lastPush').part
             old == ensureCurrentMessage(acc).currentMessage
         IN /\ (p.tag = "f" /\ Deref(old).id = <<>>) =>
                 Deref(acc'.currentMessage).id = p.messageId
            /\ (acc.currentMessage # Nil /\ acc'.currentMessage # Nil
                  /\ Deref(acc'.currentMessage).serial = Deref(acc.currentMessage).serial
                  /\ Deref(acc.currentMessage).id # <<>>) =>
                 Deref(acc'.currentMessage).id = Deref(acc.currentMessage).id]_vars

\* The step-start of a second step, pushed with messageId m2 after a
\* continued finish-step, left the id at m1.
C23_Witness ==
    /\ lastPush # Nil
    /\ Deref(lastPush).part.tag = "f"
    /\ Deref(lastPush).part.messageId = <<"m2">>
    /\ acc.currentMessage # Nil
    /\ Deref(acc.currentMessage).id = <<"m1">>
    /\ TypesOf(CurParts(acc)) = <<PartTypeStepStart, PartTypeStepStart>>
    /\ acc.finishReason = FinishReasonStop

\* ------------------------------- WithToolCalling: ready-made tool-call parts
\* up[i] is a tool-call part whose id no earlier upstream part announced or
\* fed with deltas.
ReadyMadeToolCall(i) ==
    /\ up[i].tag = "9"
    /\ \A j \in 1..(i - 1) : up[j].tag \in {"b", "c"} => up[j].toolCallId # up[i].toolCallId

\* The position in `out` of the i-th part forwarded from the upstream.
RECURSIVE ForwardedAt(_, _)
ForwardedAt(i, from) ==
    IF from > Len(out) THEN 0
    ELSE IF out[from].synth THEN ForwardedAt(i, from + 1)
    ELSE IF i = 1 THEN from
    ELSE ForwardedAt(i - 1, from + 1)

\* C24: once the upstream part after a ready-made tool-call part is
\* forwarded (or the loop is back waiting for the upstream), the forwarded
\* tool-call is followed by the middleware's tool-call, one handler call with
\* the part's id, name and args, and the tool-result for that id carrying
\* the handler's value.
C24_ReadyMadeCallHandled ==
    \A i \in DOMAIN up :
        (ReadyMadeToolCall(i) /\ (i < Len(up) \/ mpc = "idle")) =>
          LET k == ForwardedAt(i, 1)
              tc == [id |-> up[i].toolCallId, name |-> up[i].toolName, args |-> up[i].args]
              between == {c \in DOMAIN calls : calls[c].at = k + 1}
          IN /\ k # 0
             /\ Len(out) >= k + 2
             /\ out[k + 1] = PartItem(ToolCallStreamPart(tc.id, tc.name, tc.args), TRUE, Nil)
             /\ Cardinality(between) = 1
             /\ \A c \in between :
                  /\ calls[c].call = tc
                  /\ out[k + 2] = PartItem(ToolResultStreamPart(tc.id, calls[c].result), TRUE, Nil)
             /\ i < Len(up) => ForwardedAt(i + 1, 1) = k + 3

\* A ready-made tool-call for t1 came first; its result went out before the
\* text that followed it upstream.
C24_Witness ==
    /\ Len(up) = 2
    /\ ReadyMadeToolCall(1)
    /\ up[2].tag = "0"
    /\ Len(out) = 4
    /\ Deref(out[3].part).tag = "a"
    /\ out[3].synth
    /\ Deref(out[4].part).tag = "0"
    /\ Len(calls) = 1

\* --------------------------------------------------- converter properties
Called(fn) == conv # Nil /\ Deref(conv).fn = fn
Returned == Deref(conv).result
Blocks(content) == {content[k] : k \in DOMAIN content}
InvocationsIn(message) ==
    {i \in DOMAIN message.parts : message.parts[i].type = PartTypeToolInvocation}

\* The Part holds an invocation whose args, and result if it is in result
\* state, JSON can represent.
Encodable(part) ==
    /\ part.inv # Nil
    /\ MarshalArgs(Deref(part.inv).args).ok
    /\ Deref(part.inv).state = ToolInvocationStateResult =>
         /\ Deref(part.inv).result # Nil
         /\ Deref(Deref(part.inv).result) # "bad"

\* The list is one assistant message with exactly one tool invocation.
OneAssistantInvocation ==
    /\ Len(cin.messages) = 1
    /\ cin.messages[1].role = "assistant"
    /\ Cardinality(InvocationsIn(cin.messages[1])) = 1
    /\ \A i \in InvocationsIn(cin.messages[1]) : Encodable(cin.messages[1].parts[i])

\* C25: MessagesToAnthropic turns an assistant message with one invocation
\* in result state into an assistant message that contains the tool_use block
\* of the id, followed at once by a user message whose only content is the
\* tool_result block of that id with the JSON text of the result; an
\* invocation in call state gives one assistant message with the tool_use
\* block and no tool_result block.
C25_ResultSplitsInTwo ==
    (Called("MessagesToAnthropic") /\ OneAssistantInvocation) =>
      \A i \in InvocationsIn(cin.messages[1]) :
         LET ti == Deref(cin.messages[1].parts[i].inv)
             use == ToolUseBlockParam(ti.toolCallId, ti.toolName, MarshalArgs(ti.args).text)
             result == ToolResultBlockParam(ti.toolCallId,
                                            <<TextBlockParam(<<Deref(ti.result)>>)>>)
             msgs == Returned.messages
         IN /\ Returned.outcome = "ok"
            /\ Len(msgs) >= 1
            /\ msgs[1].role = "assistant"
            /\ use \in Blocks(msgs[1].content)
            /\ \A b \in Blocks(msgs[1].content) : b.kind # "tool_result"
            /\ ti.state = ToolInvocationStateResult =>
                 /\ Len(msgs) = 2
                 /\ msgs[2] = MessageParam("user", <<result>>)
            /\ ti.state = ToolInvocationStateCall => Len(msgs) = 1

\* A text and a result-state invocation of t1 became an assistant message
\* of two blocks and a user message.
C25_Witness ==
    /\ Called("MessagesToAnthropic")
    /\ OneAssistantInvocation
    /\ Len(cin.messages[1].parts) = 2
    /\ cin.messages[1].parts[1].type = PartTypeText
    /\ Len(Returned.messages) = 2
    /\ Len(Returned.messages[1].content) = 2
    /\ Returned.messages[2].content[1].kind = "tool_result"

\* C26: the list MessagesToAnthropic returns never has two consecutive
\* messages with the same role.
C26_NoAdjacentSameRole ==
    Called("MessagesToAnthropic") =>
      \A k \in 1..(Len(Returned.messages) - 1) :
         Returned.messages[k].role # Returned.messages[k + 1].role

\* The list is one assistant message whose invocations, at least one, are
\* all in call state.
OneAssistantOfCalls ==
    /\ Len(cin.messages) = 1
    /\ cin.messages[1].role = "assistant"
    /\ InvocationsIn(cin.messages[1]) # {}
    /\ \A i \in InvocationsIn(cin.messages[1]) :
         /\ Encodable(cin.messages[1].parts[i])
         /\ Deref(cin.messages[1].parts[i].inv).state = ToolInvocationStateCall

RECURSIVE ToolCallsOf(_)
\* The calls of the invocation Parts, in part order, as OpenAI tool calls.
ToolCallsOf(parts) ==
    IF parts = <<>> THEN <<>>
    ELSE (IF Head(parts).type = PartTypeToolInvocation
          THEN LET ti == Deref(Head(parts).inv)
               IN <<[id |-> ti.toolCallId, name |-> ti.toolName,
                     arguments |-> MarshalArgs(ti.args).text]>>
          ELSE <<>>)
         \o ToolCallsOf(Tail(parts))

\* C27: MessagesToOpenAI turns an assistant message whose invocations are
\* all in call state into one assistant message whose toolCalls are those
\* calls, in order, with or without text in the message.
C27_CallsPackedInOne ==
    (Called("MessagesToOpenAI") /\ OneAssistantOfCalls) =>
      /\ Returned.outcome = "ok"
      /\ Len(Returned.messages) = 1
      /\ Returned.messages[1].role = "assistant"
      /\ Returned.messages[1].toolCalls = ToolCallsOf(cin.messages[1].parts)

\* C28: in the list MessagesToOpenAI returns, every tool message comes
\* after an assistant message whose toolCalls name its toolCallId, with
\* nothing but tool messages in between.
C28_ToolFollowsItsCall ==
    Called("MessagesToOpenAI") =>
      LET msgs == Returned.messages
      IN \A i \in DOMAIN msgs :
           msgs[i].role = "tool" =>
             \E j \in 1..(i - 1) :
                /\ msgs[j].role = "assistant"
                /\ \E c \in DOMAIN msgs[j].toolCalls :
                      msgs[j].toolCalls[c].id = msgs[i].toolCallId
                /\ \A k \in (j + 1)..(i - 1) : msgs[k].role = "tool"

\* A text, a call of t2 and a result of t1 in one assistant message: the
\* tool message of t1 follows an assistant message with both calls.
C28_Witness ==
    /\ Called("MessagesToOpenAI")
    /\ Len(Returned.messages) = 2
    /\ Returned.messages[2].role = "tool"
    /\ Returned.messages[2].toolCallId = "t1"
    /\ Len(Returned.messages[1].toolCalls) = 2
    /\ Len(Returned.messages[1].content) = 1

SupportedRoles == {"system", "user", "assistant", "tool"}

\* C29: MessagesToOpenAI, MessagesToAnthropic and MessagesToGoogle return an
\* error and no messages when a message of the input has a role outside the
\* supported ones.
C29_UnsupportedRoleFails ==
    (/\ conv # Nil
     /\ Deref(conv).fn \in {"MessagesToOpenAI", "MessagesToAnthropic", "MessagesToGoogle"}
     /\ \E k \in DOMAIN cin.messages : cin.messages[k].role \notin SupportedRoles)
    => /\ Returned.outcome = "error"
       /\ Returned.messages = <<>>

\* --- AnthropicToMessages
\* A user message made of tool_result blocks only.
OnlyResults(anthropicMsg) ==
    /\ anthropicMsg.role = "user"
    /\ \A k \in DOMAIN anthropicMsg.content : anthropicMsg.content[k].kind = "tool_result"

\* The input messages that get a canonical message, and the place of the
\* j-th input message among them.
Kept(j) == ~OnlyResults(cin.messages[j])
OutIndex(j) == Cardinality({i \in 1..j : Kept(i)})

\* The input message whose invocations a tool_result block of message j is
\* matched against: the last message kept before j, if it is an assistant
\* message; 0 if there is none.
Anchor(j) ==
    LET before == {i \in 1..(j - 1) : Kept(i)}
        last == CHOOSE i \in before : \A h \in before : h <= i
    IN IF before = {} THEN 0
       ELSE IF cin.messages[last].role = "assistant" THEN last ELSE 0

ResultBlocks ==
    UNION {{<<j, b>> : b \in {c \in DOMAIN cin.messages[j].content :
                               cin.messages[j].content[c].kind = "tool_result"}} :
           j \in DOMAIN cin.messages}

UsesIn(j, id) ==
    {c \in DOMAIN cin.messages[j].content :
       /\ cin.messages[j].content[c].kind = "tool_use"
       /\ cin.messages[j].content[c].id = id}

Orphan(jb) == Anchor(jb[1]) = 0
UnknownId(jb) ==
    /\ Anchor(jb[1]) # 0
    /\ UsesIn(Anchor(jb[1]), cin.messages[jb[1]].content[jb[2]].id) = {}
NoText(jb) ==
    LET content == cin.messages[jb[1]].content[jb[2]].content
    IN content = <<>> \/ content[1].kind # "text"

C30_WitnessOrphan ==
    /\ Called("AnthropicToMessages")
    /\ \E jb \in ResultBlocks : Orphan(jb)
    /\ Returned.outcome = "error"

\* ------------------------------------------------- round-trip properties
TripDone(fn) == conv # Nil /\ Deref(conv).fn = fn
\* The invocations agree on id and tool name and on being paired with a
\* result.
SameInvocations(tis, back) ==
    /\ Len(back) = Len(tis)
    /\ \A k \in DOMAIN tis :
          /\ back[k].toolCallId = tis[k].toolCallId
          /\ back[k].toolName = tis[k].toolName
          /\ (back[k].state = ToolInvocationStateResult)
               <=> (tis[k].state = ToolInvocationStateResult)
SameMessages(messages, back) ==
    /\ Len(back) = Len(messages)
    /\ \A i \in DOMAIN messages :
          /\ back[i].role = messages[i].role
          /\ back[i].content = messages[i].content
          /\ SameInvocations(messages[i].toolInvocations, back[i].toolInvocations)
Preserved ==
    /\ Deref(conv).result.outcome = "ok"
    /\ SameMessages(cin.messages, Deref(conv).result.messages)
\* No message holds two invocations with one id.
DistinctIds ==
    \A i \in DOMAIN cin.messages :
       \A k, n \in DOMAIN cin.messages[i].toolInvocations :
          cin.messages[i].toolInvocations[k].toolCallId
             = cin.messages[i].toolInvocations[n].toolCallId => k = n
\* Every assistant message has text or an invocation.
NoEmptyAssistant ==
    \A i \in DOMAIN cin.messages :
       cin.messages[i].role = "assistant" =>
          cin.messages[i].content # <<>> \/ cin.messages[i].toolInvocations # <<>>

\* C31 as stated: for every list of user and assistant messages of text and
\* invocations with object args and results, both round trips (to Anthropic
\* and back, to OpenAI and back) succeed and preserve every message's role
\* and text, every invocation's id and tool name, and which invocations
\* have a result.
C31_RoundTripAll ==
    (TripDone("AnthropicToMessagesBack") \/ TripDone("OpenAIToMessagesBack")) => Preserved

\* C31, amended: the round trips preserve these when no message holds two
\* invocations with one id and, for the Anthropic round trip, every
\* assistant message has text or an invocation.
C31_RoundTrip ==
    /\ (TripDone("AnthropicToMessagesBack") /\ DistinctIds /\ NoEmptyAssistant) => Preserved
    /\ (TripDone("OpenAIToMessagesBack") /\ DistinctIds) => Preserved

\* A round trip of a user message and an assistant message with text, an
\* invocation with a result and one without.
C31_Witness ==
    /\ TripDone("OpenAIToMessagesBack")
    /\ DistinctIds
    /\ Len(cin.messages) = 2
    /\ cin.messages[1].role = "user"
    /\ cin.messages[2].content # <<>>
    /\ Len(cin.messages[2].toolInvocations) = 2
    /\ cin.messages[2].toolInvocations[1].state = ToolInvocationStateResult
    /\ cin.messages[2].toolInvocations[2].state = ToolInvocationStateCall
    /\ Len(Deref(conv).result.messages) = 2

\* ------------------------------------------- OpenAI: interleaved tool calls
RECURSIVE ToolCallDeltasOf(_)
\* The delta.toolCalls entries of the chunks, in the order the adapter reads
\* them.
ToolCallDeltasOf(chunks) ==
    IF chunks = <<>> \/ Head(chunks).choices = <<>> THEN <<>>
    ELSE Head(chunks).choices[1].toolCalls \o ToolCallDeltasOf(Tail(chunks))

RECURSIVE AnnouncedFor(_, _, _)
\* For every entry with an args fragment that comes after some ID: the ID
\* that was announced for the entry's index ("" when none was).
AnnouncedFor(deltas, byIndex, seen) ==
    IF deltas = <<>> THEN <<>>
    ELSE LET d == Head(deltas)
             ann == IF d.id # "" THEN [byIndex EXCEPT ![d.index] = d.id] ELSE byIndex
             s == seen \/ d.id # ""
         IN (IF d.arguments # <<>> /\ s THEN <<ann[d.index]>> ELSE <<>>)
            \o AnnouncedFor(Tail(deltas), ann, s)

ToolCallDeltaIds(parts) ==
    LET ds == SelectSeq(parts, LAMBDA p : p.tag = "c")
    IN [k \in DOMAIN ds |-> ds[k].toolCallId]

\* C32: every tool-call-delta that OpenAIToDataStream yields for an args
\* fragment of delta.toolCalls index i carries the toolCallId that the
\* tool-call-start for index i announced, also when the entries of several
\* indexes interleave.
C32_DeltaCarriesIdOfItsIndex ==
    (src = "openai" /\ AdapterUpToDate) =>
        LET ids == ToolCallDeltaIds(up)
            for == AnnouncedFor(ToolCallDeltasOf(evs), [i \in {0, 1} |-> ""], FALSE)
        IN /\ Len(ids) = Len(for)
           /\ \A k \in DOMAIN for : for[k] # "" => ids[k] = for[k]

\* ------------------------------------------- accumulator: the finish-step
\* The parts of the message a finish-step works on, before the Push ...
PartsBefore(a) == CurParts(ensureCurrentMessage(a))
\* ... and after it: the message is still in progress when the step is
\* continued, else it is the last of Messages().
PartsAfter(a, p) ==
    IF p.isContinued THEN CurParts(a) ELSE Last(Messages(a)).parts

IsPartialCall(part) ==
    /\ part.type = PartTypeToolInvocation
    /\ part.inv # Nil
    /\ Deref(part.inv).state = ToolInvocationStatePartialCall
\* String args that are non-empty and decode.
Decodable(args) == args.isStr /\ args.str # <<>> /\ Unmarshal(args.str).ok

\* What the claim says a finish-step makes of a partial-call part.
Promoted(old, new) ==
    IF Decodable(Deref(old.inv).args)
    THEN /\ Deref(new.inv).state = ToolInvocationStateCall
         /\ Deref(new.inv).args = ObjArgs(Unmarshal(Deref(old.inv).args.str).obj)
    ELSE new.inv = old.inv

\* C33 as stated: a finish-step Push returns no error, sets finishReason to
\* the step's reason, and turns every invocation still in partial-call into
\* state call with the decoded args when its string args are non-empty and
\* decode, and leaves it as it is otherwise.
C33_EveryPartialCall ==
    [][(nPush' = nPush + 1 /\ Deref(lastPush').part.tag = "e") =>
         LET p == Deref(lastPush').part
             old == PartsBefore(acc)
             new == PartsAfter(acc', p)
         IN /\ ~Deref(lastPush').err
            /\ acc'.finishReason = p.finishReason
            /\ Len(new) = Len(old)
            /\ \A i \in DOMAIN old : IsPartialCall(old[i]) => Promoted(old[i], new[i])]_vars

\* C33, amended: the same for every invocation in partial-call that
\* wipToolCalls still points to; every other invocation in partial-call is
\* left as it is.
C33_FinishStepPromotes ==
    [][(nPush' = nPush + 1 /\ Deref(lastPush').part.tag = "e") =>
         LET p == Deref(lastPush').part
             old == PartsBefore(acc)
             new == PartsAfter(acc', p)
             wip == Image(ensureCurrentMessage(acc).wipToolCalls)
         IN /\ ~Deref(lastPush').err
            /\ acc'.finishReason = p.finishReason
            /\ Len(new) = Len(old)
            /\ \A i \in DOMAIN old :
                  IsPartialCall(old[i]) =>
                     IF i \in wip THEN Promoted(old[i], new[i])
                     ELSE new[i].inv = old[i].inv]_vars

\* A finish-step was pushed on a message with two invocations in progress:
\* the one whose args decode is in state call with the decoded args, the one
\* without args is still in partial-call.
C33_Witness ==
    /\ lastPush # Nil
    /\ Deref(lastPush).part.tag = "e"
    /\ Deref(lastPush).part.isContinued
    /\ acc.currentMessage # Nil
    /\ Len(CurParts(acc)) = 2
    /\ IsInvocationOf(CurParts(acc)[1], "t1")
    /\ Deref(CurParts(acc)[1].inv).state = ToolInvocationStateCall
    /\ Deref(CurParts(acc)[1].inv).args = ObjArgs("{}")
    /\ IsPartialCall(CurParts(acc)[2])
    /\ Deref(CurParts(acc)[2].inv).args = StrArgs(<<>>)

\* ------------------------------------------- Anthropic: the finish-message
\* C34: over an Anthropic stream that ends without an error and whose
\* consumer takes every part, AnthropicToDataStream yields exactly one
\* finish-message, as its last part, whatever the order of the events; when
\* the stream ends with message_stop, a finish-step with the same
\* finishReason and usage comes directly before it.
C34_OneFinishMessageLast ==
    (src = "anthropic" /\ AdapterRanToEnd /\ ~ad.err) =>
        /\ Cardinality({i \in DOMAIN up : up[i].tag = "d"}) = 1
        /\ Last(up).tag = "d"
        /\ (evs # <<>> /\ Last(evs).type = "message_stop") =>
              /\ Len(up) >= 2
              /\ up[Len(up) - 1].tag = "e"
              /\ up[Len(up) - 1].finishReason = Last(up).finishReason
              /\ up[Len(up) - 1].usage = Last(up).usage

\* ---------------------------- WithToolCalling: one tool-call part per call
\* The positions of the upstream parts, and of the parts the consumer got,
\* that have this tag and this toolCallId.
UpWith(tag, id) == {i \in DOMAIN up : up[i].tag = tag /\ up[i].toolCallId = id}
OutWith(tag, id) ==
    {i \in DOMAIN out : /\ out[i].part # Nil
                         /\ Deref(out[i].part).tag = tag
                         /\ Deref(out[i].part).toolCallId = id}

\* C35: when the upstream's tool calls all come as ready-made tool-call
\* parts (it yields no tool-call-delta and no tool-result), the consumer of
\* WithToolCalling gets, once a part is dealt with, one tool-call part per
\* upstream tool-call part of an id, and as many tool-result parts for the
\* id.
C35_OneToolCallPerReadyMade ==
    (/\ src = "raw"
     /\ mpc \in {"idle", "done"}
     /\ ~halted
     /\ \A i \in DOMAIN up : up[i].tag \notin {"c", "a", "!"}) =>
        \A id \in ToolCallIDs :
           /\ Cardinality(OutWith("9", id)) = Cardinality(UpWith("9", id))
           /\ Cardinality(OutWith("9", id)) = Cardinality(OutWith("a", id))

\* ------------------------------------------------------------ cancellation
\* C36: once the consumer's yield has returned false, the chain
\* WithToolCalling(h).WithAccumulator(acc) takes no further part from the
\* upstream, pushes nothing into the accumulator, does not run the handler
\* and makes no further yield call.
C36_CancellationPropagates ==
    [][halted => /\ up' = up
                 /\ acc' = acc
                 /\ calls' = calls
                 /\ out' = out]_vars

\* ------------------------------------------------ Google: no error part
RECURSIVE PushAll(_, _)
\* Whether Push returns nil for each of the parts, pushed in order.
PushAll(a, parts) ==
    IF parts = <<>> THEN TRUE
    ELSE LET r == Push(a, Head(parts))
         IN ~r.err /\ PushAll(r.acc, Tail(parts))

\* C37: over a Google stream whose iterator delivers no error,
\* GoogleToDataStream yields no error part, and a fresh accumulator takes
\* all it has yielded without Push returning an error.
C37_GoogleNoErrorPart ==
    (src = "google" /\ ~ad.err) =>
        /\ \A i \in DOMAIN up : up[i].tag # "3"
        /\ PushAll(DataStreamAccumulator, up)

\* -------------------------------------------- accumulator: empty messages
\* C38: every message of Messages() has at least one part or annotation,
\* whatever was pushed.
C38_NoEmptyMessage ==
    \A i \in DOMAIN Messages(acc) :
       Messages(acc)[i].parts # <<>> \/ Messages(acc)[i].annotations > 0

\* ------------------------------------- MessagesToAnthropic: texts and roles
RECURSIVE PartTexts(_)
\* The non-empty texts of the text Parts, in order.
PartTexts(parts) ==
    IF parts = <<>> THEN <<>>
    ELSE (IF Head(parts).type = PartTypeText /\ Head(parts).text # <<>>
          THEN <<Head(parts).text>> ELSE <<>>) \o PartTexts(Tail(parts))

RECURSIVE AssistantPartTexts(_)
\* The same over the assistant messages of a list.
AssistantPartTexts(messages) ==
    IF messages = <<>> THEN <<>>
    ELSE (IF Head(messages).role = "assistant" THEN PartTexts(Head(messages).parts)
          ELSE <<>>) \o AssistantPartTexts(Tail(messages))

RECURSIVE BlockTexts(_)
\* The texts of the text blocks, in order.
BlockTexts(content) ==
    IF content = <<>> THEN <<>>
    ELSE (IF Head(content).kind = "text" THEN <<Head(content).text>> ELSE <<>>)
         \o BlockTexts(Tail(content))

RECURSIVE AssistantBlockTexts(_)
\* The same over the assistant messages of MessagesToAnthropic's result.
AssistantBlockTexts(anthropicMessages) ==
    IF anthropicMessages = <<>> THEN <<>>
    ELSE (IF Head(anthropicMessages).role = "assistant"
          THEN BlockTexts(Head(anthropicMessages).content) ELSE <<>>)
         \o AssistantBlockTexts(Tail(anthropicMessages))

\* C39: when MessagesToAnthropic succeeds, the non-empty text parts of the
\* assistant messages are, in their order, the text blocks of the assistant
\* messages it returns.
C39_NoTextLost ==
    (Called("MessagesToAnthropic") /\ Returned.outcome = "ok") =>
        AssistantBlockTexts(Returned.messages) = AssistantPartTexts(cin.messages)

\* C40: every message MessagesToAnthropic returns on success has the role
\* user or assistant.
C40_RolesUserOrAssistant ==
    (Called("MessagesToAnthropic") /\ Returned.outcome = "ok") =>
        \A i \in DOMAIN Returned.messages :
           Returned.messages[i].role \in {"user", "assistant"}
====
